---- MODULE Spec2Model ----
(***************************************************************************)
(* The leverage pool contract (contracts/leverage_pool/src/lib.rs) as a    *)
(* state machine.  Every public entry point is one atomic action.  A call  *)
(* that panics aborts with no change of the contract's storage, so it is a *)
(* stuttering step: each entry point has a <name>_result operator that     *)
(* walks the checks of the code in their order and names the panic, or     *)
(* "Ok", and the action is enabled when that result is "Ok".               *)
(*                                                                         *)
(* All amounts are i128 in the source.  Every quantity of the model stays  *)
(* far below the i128 range, and every dividend and divisor is >= 0, so    *)
(* Rust's truncating `/` is floor division.  Products that would not fit   *)
(* the model checker's integers are evaluated by MulDiv, which computes    *)
(* floor(a * b / c) exactly.                                               *)
(***************************************************************************)
EXTENDS Integers, FiniteSets, Sequences, TLC

\* ------------------------------------------------------------------------
\* Program constants
\* ------------------------------------------------------------------------
HEALTH_SCALAR == 10000
INTEREST_PERIOD == 1000
PRICE_SCALAR == 10000000
BPS_DENOM == 10000
\* i128::MAX, returned by compute_health for a debt of zero: any value above
\* every threshold the contract compares a health ratio with.
I128_MAX == 2147483647

\* zk_auth: the shortest and the longest session, in ledgers
MAX_SESSION_LEDGERS == 17280
MIN_SESSION_LEDGERS == 720

\* Configuration passed to initialize (the values of the repository's test
\* setup).
BorrowRateBps == 500
LiquidationBonusBps == 500
MinHealthBps == 10000

\* ------------------------------------------------------------------------
\* Bounds of the model
\* ------------------------------------------------------------------------
MaxLiquidity == 2
MaxCollateral == 3
MaxBorrow == 2
MaxLedgerSteps == 1
MaxDebtDrift == 1
MaxVaultBalance == 2
MaxSessionLedgerSteps == 4
MaxSessions == 2
\* what the drifting quantities may reach
MaxShares == 2 * MaxLiquidity
MaxPoolCustody == MaxLiquidity + 1
MaxCollCustody == MaxCollateral
\* ledgers that pass in one step of the clock
LedgerStep == 10000
\* ledgers that pass in one step of the clock while sessions are followed
SessionLedgerStep == 360

Users == {"u1", "u2"}
LPs == {"lp1", "lp2"}
\* XLM is the collateral type of the test setup; OLD is a collateral type the
\* admin has configured and switched off; UNK was never configured.
Tokens == {"XLM", "OLD", "UNK"}

\* DataKey::CollateralConfig(token), as the admin's set_collateral_type calls
\* left it.
collateral_configs ==
    [t \in {"XLM", "OLD"} |->
        IF t = "XLM"
        THEN [collateral_factor_bps |-> 7500, is_active |-> TRUE]
        ELSE [collateral_factor_bps |-> 5000, is_active |-> FALSE]]
Directions == {"Long", "Short"}
Prices == {10000000, 20000000}
NoPrice == 0 - 1
LpAmounts == 1..2
CollAmounts == 1..MaxCollateral
BorrowAmounts == 0..MaxBorrow
\* the tokens offered to the agent vault, and the amounts
VaultTokens == {"USDC", "EURC"}
VaultAmounts == 1..MaxVaultBalance
\* zk_auth: the agent keys users register, the durations they ask for (one
\* below the minimum, one above the maximum), and the absent key
AgentKeys == {"k1", "k2"}
SessionDurations == {MIN_SESSION_LEDGERS - 1, MIN_SESSION_LEDGERS,
                     3 * SessionLedgerStep, MAX_SESSION_LEDGERS,
                     MAX_SESSION_LEDGERS + 1}
None == "None"
\* the admins initialize is called with
Admins == {"admin", "other"}

VARIABLES
    total_liquidity,     \* DataKey::TotalLiquidity
    total_borrowed,      \* DataKey::TotalBorrowed
    total_shares,        \* DataKey::TotalShares
    lp_shares,           \* DataKey::LPShares(lp)
    positions,           \* DataKey::TraderPosition(user); absent key = no position
    collateral_balance,  \* DataKey::CollateralBalance(user, token)
    ledger,              \* env.ledger().sequence()
    oracle_price,        \* what the oracle's lastprice returns (NoPrice = None)
    pool_custody,        \* pool asset held by the contract through its transfers
    coll_custody,        \* collateral tokens held by the contract
    vault_balance,       \* agent vault: DataKey::Balance(user, token_sac)
    supported_token,     \* agent vault: DataKey::SupportedToken(token_sac)
    vault_custody,       \* tokens held by the agent vault
    active_session,      \* zk_auth: DataKey::ActiveSession(user); absent key = none
    session_counter,     \* zk_auth: DataKey::SessionCounter(user), 0 when absent
    instance,            \* instance storage of the three contracts; <<>> = empty
    last                 \* the last successful call and its arguments

vars == <<total_liquidity, total_borrowed, total_shares, lp_shares, positions,
          collateral_balance, ledger, oracle_price, pool_custody,
          coll_custody, vault_balance, supported_token, vault_custody,
          active_session, session_counter, instance, last>>

pool == <<total_liquidity, total_borrowed, total_shares, lp_shares>>

vault == <<vault_balance, supported_token, vault_custody>>

auth == <<active_session, session_counter>>

\* ------------------------------------------------------------------------
\* Arithmetic
\* ------------------------------------------------------------------------
Min(a, b) == IF a < b THEN a ELSE b
Max(a, b) == IF a > b THEN a ELSE b

\* <<q, r>> with a * b = q * c + r and 0 <= r < c, by binary expansion of b.
\* The terms in a come first so that a is evaluated before the recursion
\* descends, which keeps the evaluation stack shallow.
RECURSIVE MulDivQR(_, _, _)
MulDivQR(a, b, c) ==
    IF b = 0 THEN <<0, 0>>
    ELSE LET h == MulDivQR(a, b \div 2, c)
             d == (b % 2) * (a % c) + 2 * h[2]
         IN  <<(b % 2) * (a \div c) + 2 * h[1] + (d \div c), d % c>>

\* floor(a * b / c) for a, b >= 0 and c > 0
MulDiv(a, b, c) == MulDivQR(a, b, c)[1]

\* ------------------------------------------------------------------------
\* Helpers of the contract
\* ------------------------------------------------------------------------

\* collateral * price * factor / (10_000 * PRICE_SCALAR), the risk-adjusted
\* value of the collateral in pool-asset units.  Dividing by PRICE_SCALAR and
\* then by 10_000 is the same floor as dividing by their product.
collateral_value_of(collateral_amount, collateral_price, collateral_factor_bps) ==
    MulDiv(collateral_amount * collateral_factor_bps, collateral_price, PRICE_SCALAR)
        \div BPS_DENOM

compute_health(collateral_amount, collateral_price, collateral_factor_bps, borrowed_amount) ==
    IF borrowed_amount = 0 THEN I128_MAX
    ELSE (collateral_value_of(collateral_amount, collateral_price, collateral_factor_bps)
            * HEALTH_SCALAR) \div borrowed_amount

\* A faulty elapsed_since: the time since the position was opened, not since
\* interest was last charged.  C6 tells it from elapsed_since.
elapsed_since_opening(position, current_ledger) ==
    Max(current_ledger - position.opened_at_ledger, 0)

\* current_ledger.saturating_sub(position.last_interest_ledger)
elapsed_since(position, current_ledger) ==
    Max(current_ledger - position.last_interest_ledger, 0)

\* A faulty interest_due: the quotient rounded up instead of down.  C7 tells
\* it from interest_due.
interest_due_rounded_up(position, borrow_rate_bps, current_ledger) ==
    IF elapsed_since(position, current_ledger) = 0 THEN 0
    ELSE LET qr == MulDivQR(position.borrowed_amount * borrow_rate_bps,
                            elapsed_since(position, current_ledger),
                            BPS_DENOM * INTEREST_PERIOD)
         IN  IF qr[2] = 0 THEN qr[1] ELSE qr[1] + 1

\* the value accrue_interest_internal returns
interest_due(position, borrow_rate_bps, current_ledger) ==
    IF elapsed_since(position, current_ledger) = 0 THEN 0
    ELSE MulDiv(position.borrowed_amount * borrow_rate_bps,
                elapsed_since(position, current_ledger),
                BPS_DENOM * INTEREST_PERIOD)

\* the position accrue_interest_internal leaves behind (its &mut argument)
accrue_interest_internal(position, borrow_rate_bps, current_ledger) ==
    IF elapsed_since(position, current_ledger) = 0 THEN position
    ELSE [position EXCEPT
            !.borrowed_amount = @ + interest_due(position, borrow_rate_bps, current_ledger),
            !.last_interest_ledger = current_ledger]

\* load_collateral_config panics with UnsupportedCollateral on a missing key
has_config(token) == token \in DOMAIN collateral_configs
factor_of(token) == collateral_configs[token].collateral_factor_bps

\* get_oracle_price: None from the oracle is a panic
oracle_fails == oracle_price = NoPrice

has_position(user) == user \in DOMAIN positions

remove_position(user) == [v \in DOMAIN positions \ {user} |-> positions[v]]

store_position(user, position) ==
    [v \in DOMAIN positions \cup {user} |->
        IF v = user THEN position ELSE positions[v]]

\* What the session service answers about a user when a call is made: whether
\* is_session_valid holds and whether get_agent_pubkey returns a key.  The
\* agent is taken to have signed the transaction.
Sessions == [is_session_valid : BOOLEAN, has_agent_pubkey : BOOLEAN]
ValidSession == [is_session_valid |-> TRUE, has_agent_pubkey |-> TRUE]

\* A faulty assert_agent_authorized: it does not ask for the delegated key.
\* C17 tells it from assert_agent_authorized.
assert_agent_authorized_keyless(session) ==
    IF ~session.is_session_valid THEN "AgentSessionInvalid" ELSE "Ok"

assert_agent_authorized(session) ==
    IF ~session.is_session_valid THEN "AgentSessionInvalid"
    ELSE IF ~session.has_agent_pubkey THEN "AgentSessionInvalid"
    ELSE "Ok"

\* (min_health as i128) * 150 / 100 and * 120 / 100
open_health_req == (MinHealthBps * 150) \div 100
safe_health == (MinHealthBps * 120) \div 100

\* The record of the last successful call.  start and credit follow a user's
\* run of collateral calls on one token: the free balance before the deposit
\* that began the run, and how much of that deposit has not been withdrawn
\* again.  start is NoRun when the call belongs to no such run.
NoRun == 0 - 1

Call(op, who, tok, start, credit) ==
    [op |-> op, who |-> who, tok |-> tok, start |-> start, credit |-> credit]

NoCall(op) == Call(op, "-", "-", NoRun, 0)

\* What the three initialize calls of the test setups store.
pool_instance(admin, borrow_rate_bps, min_health_bps) ==
    [Admin |-> admin, PoolAsset |-> "USDC", OracleContract |-> "oracle",
     ZKAuthContract |-> "zk_auth", BorrowRateBps |-> borrow_rate_bps,
     LiquidationBonusBps |-> 500, MaxLeverageBps |-> 100000,
     MinHealthBps |-> min_health_bps]

vault_instance(admin, zkauth_contract) ==
    [Admin |-> admin, ZKAuthContract |-> zkauth_contract]

zk_instance(admin, verifying_key) ==
    [Admin |-> admin, VerifyingKey |-> verifying_key]

\* ------------------------------------------------------------------------
\* Initial state: after initialize and the admin's set_collateral_type calls
\* ------------------------------------------------------------------------
Init ==
    /\ total_liquidity = 0
    /\ total_borrowed = 0
    /\ total_shares = 0
    /\ lp_shares = [l \in LPs |-> 0]
    /\ positions = <<>>
    /\ collateral_balance = [k \in Users \X Tokens |-> 0]
    /\ ledger = 0
    /\ oracle_price = 10000000
    /\ pool_custody = 0
    /\ coll_custody = [t \in Tokens |-> 0]
    /\ vault_balance = [k \in Users \X VaultTokens |-> 0]
    /\ supported_token = [t \in VaultTokens |-> FALSE]
    /\ vault_custody = [t \in VaultTokens |-> 0]
    /\ active_session = <<>>
    /\ session_counter = [u \in Users |-> 0]
    /\ instance = [leverage_pool |-> pool_instance("admin", BorrowRateBps, MinHealthBps),
                   agent_vault |-> vault_instance("admin", "zk_auth"),
                   zk_auth |-> zk_instance("admin", "vk")]
    /\ last = NoCall("initialize")

\* ------------------------------------------------------------------------
\* LP functions
\* ------------------------------------------------------------------------
\* A faulty lp_deposit_new_shares: one share per unit whatever the share
\* price.  C12 tells it from lp_deposit_new_shares.
lp_deposit_new_shares_at_par(amount) == amount

lp_deposit_new_shares(amount) ==
    IF total_shares = 0 THEN amount
    ELSE MulDiv(amount, total_shares, total_liquidity)

lp_deposit_result(lp, amount) ==
    IF total_shares # 0 /\ total_liquidity = 0 THEN "DivisionByZero"
    ELSE "Ok"

lp_deposit(lp, amount) ==
    LET new_shares == lp_deposit_new_shares(amount)
    IN  /\ lp_deposit_result(lp, amount) = "Ok"
        /\ total_liquidity + amount <= MaxLiquidity
        /\ total_shares + new_shares <= MaxShares
        /\ pool_custody' = pool_custody + amount
        /\ lp_shares' = [lp_shares EXCEPT ![lp] = @ + new_shares]
        /\ total_shares' = total_shares + new_shares
        /\ total_liquidity' = total_liquidity + amount
        /\ UNCHANGED vault
        /\ UNCHANGED <<auth, instance>>
        /\ last' = Call("lp_deposit", lp, "-", NoRun, 0)
        /\ UNCHANGED <<total_borrowed, positions, collateral_balance, 
                       ledger, oracle_price, coll_custody>>

\* A faulty lp_withdraw_redeem: the redeemed amount rounded up instead of
\* down.  C3 tells it from lp_withdraw_redeem.
lp_withdraw_redeem_rounded_up(shares) ==
    LET qr == MulDivQR(shares, total_liquidity, total_shares)
    IN  IF qr[2] = 0 THEN qr[1] ELSE qr[1] + 1

lp_withdraw_redeem(shares) == MulDiv(shares, total_liquidity, total_shares)

\* A faulty lp_withdraw_result: liquidity that is out on loan is not held
\* back.  C13 tells it from lp_withdraw_result.
lp_withdraw_result_lends_out(lp, shares) ==
    IF lp_shares[lp] < shares THEN "InsufficientBalance"
    ELSE IF total_shares = 0 THEN "DivisionByZero"
    ELSE IF pool_custody < lp_withdraw_redeem(shares) THEN "TransferFailed"
    ELSE "Ok"

lp_withdraw_result(lp, shares) ==
    IF lp_shares[lp] < shares THEN "InsufficientBalance"
    ELSE IF total_shares = 0 THEN "DivisionByZero"
    ELSE IF total_liquidity - total_borrowed < lp_withdraw_redeem(shares)
         THEN "InsufficientPoolLiquidity"
    ELSE IF pool_custody < lp_withdraw_redeem(shares) THEN "TransferFailed"
    ELSE "Ok"

\* A faulty lp_withdraw: the shares come off total_shares and stay on the
\* LP's balance.  C32 tells it from lp_withdraw.
lp_withdraw_keeps_shares(lp, shares) ==
    LET redeem_amount == lp_withdraw_redeem(shares)
    IN  /\ lp_withdraw_result(lp, shares) = "Ok"
        /\ pool_custody' = pool_custody - redeem_amount
        /\ total_shares' = total_shares - shares
        /\ total_liquidity' = total_liquidity - redeem_amount
        /\ UNCHANGED vault
        /\ UNCHANGED <<auth, instance>>
        /\ last' = Call("lp_withdraw", lp, "-", NoRun, 0)
        /\ UNCHANGED <<lp_shares, total_borrowed, positions, collateral_balance,
                       ledger, oracle_price, coll_custody>>

lp_withdraw(lp, shares) ==
    LET redeem_amount == lp_withdraw_redeem(shares)
    IN  /\ lp_withdraw_result(lp, shares) = "Ok"
        /\ pool_custody' = pool_custody - redeem_amount
        /\ lp_shares' = [lp_shares EXCEPT ![lp] = @ - shares]
        /\ total_shares' = total_shares - shares
        /\ total_liquidity' = total_liquidity - redeem_amount
        /\ UNCHANGED vault
        /\ UNCHANGED <<auth, instance>>
        /\ last' = Call("lp_withdraw", lp, "-", NoRun, 0)
        /\ UNCHANGED <<total_borrowed, positions, collateral_balance, 
                       ledger, oracle_price, coll_custody>>

\* ------------------------------------------------------------------------
\* Collateral functions
\* ------------------------------------------------------------------------
deposit_collateral_result(user, token, amount) ==
    IF ~has_config(token) THEN "UnsupportedCollateral"
    ELSE IF ~collateral_configs[token].is_active THEN "InactiveCollateral"
    ELSE "Ok"

deposit_collateral(user, token, amount) ==
    LET balance == collateral_balance[<<user, token>>]
    IN  /\ deposit_collateral_result(user, token, amount) = "Ok"
        /\ balance + amount <= MaxCollateral
        /\ coll_custody[token] + amount <= MaxCollCustody
        /\ coll_custody' = [coll_custody EXCEPT ![token] = @ + amount]
        /\ collateral_balance' =
               [collateral_balance EXCEPT ![<<user, token>>] = balance + amount]
        /\ UNCHANGED vault
        /\ UNCHANGED <<auth, instance>>
        /\ last' = Call("deposit_collateral", user, token, balance, amount)
        /\ UNCHANGED <<pool, positions, ledger, oracle_price, pool_custody>>

\* the branch of withdraw_collateral that looks at the caller's position
withdraw_checks_health(user, token) ==
    /\ has_position(user)
    /\ positions[user].collateral_token = token
    /\ positions[user].borrowed_amount > 0

\* A faulty withdraw_collateral_result: it refuses to withdraw the whole
\* balance.  C8 tells it from withdraw_collateral_result.
withdraw_collateral_result_keeps_one(user, token, amount) ==
    LET balance == collateral_balance[<<user, token>>]
    IN  IF balance <= amount THEN "InsufficientCollateral"
        ELSE IF withdraw_checks_health(user, token) /\ oracle_fails THEN "OracleCallFailed"
        ELSE IF /\ withdraw_checks_health(user, token)
                /\ compute_health(balance - amount, oracle_price, factor_of(token),
                                  positions[user].borrowed_amount) < safe_health
             THEN "WithdrawalWouldLiquidate"
        ELSE IF coll_custody[token] < amount THEN "TransferFailed"
        ELSE "Ok"

\* A faulty withdraw_collateral_result: without a price it skips the health
\* check.  C20 tells it from withdraw_collateral_result.
withdraw_collateral_result_unpriced(user, token, amount) ==
    LET balance == collateral_balance[<<user, token>>]
    IN  IF balance < amount THEN "InsufficientCollateral"
        ELSE IF /\ withdraw_checks_health(user, token)
                /\ ~oracle_fails
                /\ compute_health(balance - amount, oracle_price, factor_of(token),
                                  positions[user].borrowed_amount) < safe_health
             THEN "WithdrawalWouldLiquidate"
        ELSE IF coll_custody[token] < amount THEN "TransferFailed"
        ELSE "Ok"

withdraw_collateral_result(user, token, amount) ==
    LET balance == collateral_balance[<<user, token>>]
    IN  IF balance < amount THEN "InsufficientCollateral"
        ELSE IF withdraw_checks_health(user, token) /\ oracle_fails THEN "OracleCallFailed"
        ELSE IF /\ withdraw_checks_health(user, token)
                /\ compute_health(balance - amount, oracle_price, factor_of(token),
                                  positions[user].borrowed_amount) < safe_health
             THEN "WithdrawalWouldLiquidate"
        ELSE IF coll_custody[token] < amount THEN "TransferFailed"
        ELSE "Ok"

\* whether this withdrawal continues the run of collateral calls `last` records
continues_run(user, token, amount) ==
    /\ last.op \in {"deposit_collateral", "withdraw_collateral"}
    /\ last.who = user
    /\ last.tok = token
    /\ last.start # NoRun
    /\ amount <= last.credit

withdraw_collateral(user, token, amount) ==
    LET balance == collateral_balance[<<user, token>>]
    IN  /\ withdraw_collateral_result(user, token, amount) = "Ok"
        /\ coll_custody' = [coll_custody EXCEPT ![token] = @ - amount]
        /\ collateral_balance' =
               [collateral_balance EXCEPT ![<<user, token>>] = balance - amount]
        /\ UNCHANGED vault
        /\ UNCHANGED <<auth, instance>>
        /\ last' = IF continues_run(user, token, amount)
                   THEN Call("withdraw_collateral", user, token,
                             last.start, last.credit - amount)
                   ELSE Call("withdraw_collateral", user, token, NoRun, 0)
        /\ UNCHANGED <<pool, positions, ledger, oracle_price, pool_custody>>

\* ------------------------------------------------------------------------
\* Position functions
\* ------------------------------------------------------------------------
\* A faulty open_position_result: it lends liquidity the pool does not
\* have.  C15 tells it from open_position_result.
open_position_result_overlends(user, collateral_token, borrow_amount, session) ==
    LET collateral == collateral_balance[<<user, collateral_token>>]
        max_borrowable ==
            collateral_value_of(collateral, oracle_price, factor_of(collateral_token))
        initial_health ==
            compute_health(collateral, oracle_price, factor_of(collateral_token),
                           borrow_amount)
    IN  IF assert_agent_authorized(session) # "Ok" THEN "AgentSessionInvalid"
        ELSE IF has_position(user) THEN "PositionAlreadyOpen"
        ELSE IF ~has_config(collateral_token) THEN "UnsupportedCollateral"
        ELSE IF ~collateral_configs[collateral_token].is_active THEN "InactiveCollateral"
        ELSE IF collateral <= 0 THEN "InsufficientCollateral"
        ELSE IF oracle_fails THEN "OracleCallFailed"
        ELSE IF borrow_amount > max_borrowable THEN "BorrowExceedsCollateral"
        ELSE IF initial_health < open_health_req THEN "InsufficientCollateral"
        ELSE "Ok"

\* A faulty open_position_result: it does not look for an existing
\* position.  C11 tells it from open_position_result.
open_position_result_reopens(user, collateral_token, borrow_amount, session) ==
    LET collateral == collateral_balance[<<user, collateral_token>>]
        max_borrowable ==
            collateral_value_of(collateral, oracle_price, factor_of(collateral_token))
        initial_health ==
            compute_health(collateral, oracle_price, factor_of(collateral_token),
                           borrow_amount)
    IN  IF assert_agent_authorized(session) # "Ok" THEN "AgentSessionInvalid"
        ELSE IF ~has_config(collateral_token) THEN "UnsupportedCollateral"
        ELSE IF ~collateral_configs[collateral_token].is_active THEN "InactiveCollateral"
        ELSE IF collateral <= 0 THEN "InsufficientCollateral"
        ELSE IF oracle_fails THEN "OracleCallFailed"
        ELSE IF borrow_amount > max_borrowable THEN "BorrowExceedsCollateral"
        ELSE IF borrow_amount > total_liquidity - total_borrowed
             THEN "InsufficientPoolLiquidity"
        ELSE IF initial_health < open_health_req THEN "InsufficientCollateral"
        ELSE "Ok"

\* A faulty open_position_result: it also rejects a health of exactly
\* open_health_req.  C4 tells it from open_position_result.
open_position_result_strict(user, collateral_token, borrow_amount, session) ==
    LET collateral == collateral_balance[<<user, collateral_token>>]
        max_borrowable ==
            collateral_value_of(collateral, oracle_price, factor_of(collateral_token))
        initial_health ==
            compute_health(collateral, oracle_price, factor_of(collateral_token),
                           borrow_amount)
    IN  IF assert_agent_authorized(session) # "Ok" THEN "AgentSessionInvalid"
        ELSE IF has_position(user) THEN "PositionAlreadyOpen"
        ELSE IF ~has_config(collateral_token) THEN "UnsupportedCollateral"
        ELSE IF ~collateral_configs[collateral_token].is_active THEN "InactiveCollateral"
        ELSE IF collateral <= 0 THEN "InsufficientCollateral"
        ELSE IF oracle_fails THEN "OracleCallFailed"
        ELSE IF borrow_amount > max_borrowable THEN "BorrowExceedsCollateral"
        ELSE IF borrow_amount > total_liquidity - total_borrowed
             THEN "InsufficientPoolLiquidity"
        ELSE IF initial_health <= open_health_req THEN "InsufficientCollateral"
        ELSE "Ok"

open_position_result(user, collateral_token, borrow_amount, session) ==
    LET collateral == collateral_balance[<<user, collateral_token>>]
        max_borrowable ==
            collateral_value_of(collateral, oracle_price, factor_of(collateral_token))
        initial_health ==
            compute_health(collateral, oracle_price, factor_of(collateral_token),
                           borrow_amount)
    IN  IF assert_agent_authorized(session) # "Ok" THEN "AgentSessionInvalid"
        ELSE IF has_position(user) THEN "PositionAlreadyOpen"
        ELSE IF ~has_config(collateral_token) THEN "UnsupportedCollateral"
        ELSE IF ~collateral_configs[collateral_token].is_active THEN "InactiveCollateral"
        ELSE IF collateral <= 0 THEN "InsufficientCollateral"
        ELSE IF oracle_fails THEN "OracleCallFailed"
        ELSE IF borrow_amount > max_borrowable THEN "BorrowExceedsCollateral"
        ELSE IF borrow_amount > total_liquidity - total_borrowed
             THEN "InsufficientPoolLiquidity"
        ELSE IF initial_health < open_health_req THEN "InsufficientCollateral"
        ELSE "Ok"

\* A faulty open_position: it moves the collateral out of the free balance
\* into the position.  C16 tells it from open_position.
open_position_locks(user, collateral_token, borrow_amount, direction, session) ==
    LET position == [borrowed_amount |-> borrow_amount,
                     collateral_token |-> collateral_token,
                     collateral_amount |-> collateral_balance[<<user, collateral_token>>],
                     opened_at_ledger |-> ledger,
                     last_interest_ledger |-> ledger,
                     direction |-> direction]
    IN  /\ open_position_result(user, collateral_token, borrow_amount, session) = "Ok"
        /\ positions' = store_position(user, position)
        /\ total_borrowed' = total_borrowed + borrow_amount
        /\ collateral_balance' =
               [collateral_balance EXCEPT ![<<user, collateral_token>>] = 0]
        /\ UNCHANGED vault
        /\ UNCHANGED <<auth, instance>>
        /\ last' = Call("open_position", user, collateral_token, NoRun, 0)
        /\ UNCHANGED <<total_liquidity, total_shares, lp_shares,
                       ledger, oracle_price, pool_custody, coll_custody>>

open_position(user, collateral_token, borrow_amount, direction, session) ==
    LET position == [borrowed_amount |-> borrow_amount,
                     collateral_token |-> collateral_token,
                     collateral_amount |-> collateral_balance[<<user, collateral_token>>],
                     opened_at_ledger |-> ledger,
                     last_interest_ledger |-> ledger,
                     direction |-> direction]
    IN  /\ open_position_result(user, collateral_token, borrow_amount, session) = "Ok"
        /\ positions' = store_position(user, position)
        /\ total_borrowed' = total_borrowed + borrow_amount
        /\ UNCHANGED vault
        /\ UNCHANGED <<auth, instance>>
        /\ last' = Call("open_position", user, collateral_token, NoRun, 0)
        /\ UNCHANGED <<total_liquidity, total_shares, lp_shares, collateral_balance,
                       ledger, oracle_price, pool_custody, coll_custody>>

\* A faulty accrued_position: the stored position, without the interest of
\* the ledgers since last_interest_ledger.  C18 tells it from
\* accrued_position.
stored_position(user) == positions[user]

\* the position close_position and liquidate work on: the stored one with
\* interest accrued to the current ledger
accrued_position(user) ==
    accrue_interest_internal(positions[user], BorrowRateBps, ledger)

\* position.collateral_amount * price / PRICE_SCALAR - position.borrowed_amount
close_pnl(position) ==
    MulDiv(position.collateral_amount, oracle_price, PRICE_SCALAR)
        - position.borrowed_amount

\* A faulty close_payout: the whole profit, not capped by total_liquidity.
\* C19 tells it from close_payout.
close_payout_uncapped(position) ==
    IF close_pnl(position) > 0 THEN close_pnl(position) ELSE 0

close_payout(position) ==
    IF close_pnl(position) > 0 THEN Min(close_pnl(position), total_liquidity) ELSE 0

close_remaining_collateral(position) ==
    IF close_pnl(position) < 0
    THEN LET loss == 0 - close_pnl(position)
             loss_in_collateral == IF oracle_price > 0
                                   THEN MulDiv(loss, PRICE_SCALAR, oracle_price)
                                   ELSE 0
         IN  Max(position.collateral_amount - loss_in_collateral, 0)
    ELSE position.collateral_amount

close_position_result(user, session) ==
    IF assert_agent_authorized(session) # "Ok" THEN "AgentSessionInvalid"
    ELSE IF ~has_position(user) THEN "NoOpenPosition"
    ELSE IF oracle_fails THEN "OracleCallFailed"
    ELSE IF pool_custody < close_payout(accrued_position(user)) THEN "TransferFailed"
    ELSE "Ok"

\* A faulty close_position: the payout leaves the contract and stays in
\* total_liquidity.  C36 tells it from close_position.
close_position_keeps_liquidity(user, session) ==
    /\ close_position_result(user, session) = "Ok"
    /\ total_borrowed - accrued_position(user).borrowed_amount >= 0 - MaxDebtDrift
    /\ LET position == accrued_position(user)
           payout == close_payout(position)
       IN  /\ total_borrowed' = total_borrowed - position.borrowed_amount
           /\ pool_custody' = pool_custody - payout
           /\ collateral_balance' =
                  [collateral_balance EXCEPT
                      ![<<user, position.collateral_token>>] =
                          close_remaining_collateral(position)]
           /\ positions' = remove_position(user)
    /\ UNCHANGED vault
    /\ UNCHANGED <<auth, instance>>
    /\ last' = Call("close_position", user, "-", NoRun, 0)
    /\ UNCHANGED <<total_liquidity, total_shares, lp_shares, ledger, oracle_price,
                   coll_custody>>

close_position(user, session) ==
    /\ close_position_result(user, session) = "Ok"
    /\ total_borrowed - accrued_position(user).borrowed_amount >= 0 - MaxDebtDrift
    /\ LET position == accrued_position(user)
           payout == close_payout(position)
       IN  /\ total_borrowed' = total_borrowed - position.borrowed_amount
           /\ pool_custody' = pool_custody - payout
           /\ total_liquidity' = total_liquidity - payout
           /\ collateral_balance' =
                  [collateral_balance EXCEPT
                      ![<<user, position.collateral_token>>] =
                          close_remaining_collateral(position)]
           /\ positions' = remove_position(user)
    /\ UNCHANGED vault
    /\ UNCHANGED <<auth, instance>>
    /\ last' = Call("close_position", user, "-", NoRun, 0)
    /\ UNCHANGED <<total_shares, lp_shares, ledger, oracle_price,
                   coll_custody>>

\* Permissionless; a user without a position is a successful no-op.  The
\* position is written back only when the interest is positive.
accrue_interest(user) ==
    /\ IF has_position(user) /\ interest_due(positions[user], BorrowRateBps, ledger) > 0
       THEN /\ total_borrowed' =
                   total_borrowed + interest_due(positions[user], BorrowRateBps, ledger)
            /\ positions' = store_position(user, accrued_position(user))
       ELSE UNCHANGED <<total_borrowed, positions>>
    /\ UNCHANGED vault
    /\ UNCHANGED <<auth, instance>>
    /\ last' = Call("accrue_interest", user, "-", NoRun, 0)
    /\ UNCHANGED <<total_liquidity, total_shares, lp_shares, collateral_balance,
                   ledger, oracle_price, pool_custody, coll_custody>>

\* health of the position as liquidate computes it
liquidation_health(position) ==
    compute_health(position.collateral_amount, oracle_price,
                   factor_of(position.collateral_token), position.borrowed_amount)

\* A faulty liquidate_result: the health gate looks at the stored debt,
\* without the interest since last_interest_ledger.  C29 tells it from
\* liquidate_result.
liquidate_result_on_stored_debt(user) ==
    IF ~has_position(user) THEN "NoOpenPosition"
    ELSE IF oracle_fails THEN "OracleCallFailed"
    ELSE IF liquidation_health(positions[user]) >= MinHealthBps
         THEN "PositionHealthy"
    ELSE IF coll_custody[accrued_position(user).collateral_token]
                < accrued_position(user).collateral_amount
         THEN "TransferFailed"
    ELSE "Ok"

liquidate_result(user) ==
    IF ~has_position(user) THEN "NoOpenPosition"
    ELSE IF oracle_fails THEN "OracleCallFailed"
    ELSE IF liquidation_health(accrued_position(user)) >= MinHealthBps
         THEN "PositionHealthy"
    ELSE IF coll_custody[accrued_position(user).collateral_token]
                < accrued_position(user).collateral_amount
         THEN "TransferFailed"
    ELSE "Ok"

\* bonus_amount: computed for the event only
liquidation_bonus(position) ==
    (position.collateral_amount * LiquidationBonusBps) \div BPS_DENOM

\* A faulty liquidate: the contract keeps the bonus and hands the liquidator
\* the collateral less the bonus.  C30 tells it from liquidate.
liquidate_withholds_bonus(user) ==
    /\ liquidate_result(user) = "Ok"
    /\ total_borrowed - accrued_position(user).borrowed_amount >= 0 - MaxDebtDrift
    /\ pool_custody + accrued_position(user).borrowed_amount <= MaxPoolCustody
    /\ LET position == accrued_position(user)
       IN  /\ pool_custody' = pool_custody + position.borrowed_amount
           /\ total_borrowed' = total_borrowed - position.borrowed_amount
           /\ coll_custody' =
                  [coll_custody EXCEPT ![position.collateral_token] =
                      @ - (position.collateral_amount - liquidation_bonus(position))]
           /\ collateral_balance' =
                  [collateral_balance EXCEPT
                      ![<<user, position.collateral_token>>] = 0]
           /\ positions' = remove_position(user)
    /\ UNCHANGED vault
    /\ UNCHANGED <<auth, instance>>
    /\ last' = Call("liquidate", user, "-", NoRun, 0)
    /\ UNCHANGED <<total_liquidity, total_shares, lp_shares, ledger,
                   oracle_price>>

\* The liquidator's own wallet is outside the contract: it is taken to hold
\* the repayment.
liquidate(user) ==
    /\ liquidate_result(user) = "Ok"
    /\ total_borrowed - accrued_position(user).borrowed_amount >= 0 - MaxDebtDrift
    /\ pool_custody + accrued_position(user).borrowed_amount <= MaxPoolCustody
    /\ LET position == accrued_position(user)
       IN  /\ pool_custody' = pool_custody + position.borrowed_amount
           /\ total_borrowed' = total_borrowed - position.borrowed_amount
           /\ coll_custody' =
                  [coll_custody EXCEPT ![position.collateral_token] =
                      @ - position.collateral_amount]
           /\ collateral_balance' =
                  [collateral_balance EXCEPT
                      ![<<user, position.collateral_token>>] = 0]
           /\ positions' = remove_position(user)
    /\ UNCHANGED vault
    /\ UNCHANGED <<auth, instance>>
    /\ last' = Call("liquidate", user, "-", NoRun, 0)
    /\ UNCHANGED <<total_liquidity, total_shares, lp_shares, ledger,
                   oracle_price>>

\* Read-only.  A user without a position has health i128::MAX and no price is
\* read; the stored position is used, without interest accrual.
get_health_ratio_result(user) ==
    IF ~has_position(user) THEN "Ok"
    ELSE IF oracle_fails THEN "OracleCallFailed"
    ELSE "Ok"

\* A faulty get_health_ratio: it accrues the interest to the current ledger
\* before it computes the health.  C21 tells it from get_health_ratio.
get_health_ratio_accrued(user) ==
    IF ~has_position(user) THEN I128_MAX
    ELSE compute_health(accrued_position(user).collateral_amount, oracle_price,
                        factor_of(accrued_position(user).collateral_token),
                        accrued_position(user).borrowed_amount)

get_health_ratio(user) ==
    IF ~has_position(user) THEN I128_MAX
    ELSE compute_health(positions[user].collateral_amount, oracle_price,
                        factor_of(positions[user].collateral_token),
                        positions[user].borrowed_amount)

\* ------------------------------------------------------------------------
\* The agent vault (contracts/agent_vault/src/lib.rs)
\* ------------------------------------------------------------------------
\* assert_token_supported: a missing key reads as false
assert_token_supported(token_sac) ==
    IF ~supported_token[token_sac] THEN "UnsupportedToken" ELSE "Ok"

add_supported_token(token_sac) ==
    /\ supported_token' = [supported_token EXCEPT ![token_sac] = TRUE]
    /\ UNCHANGED <<auth, instance>>
    /\ last' = Call("add_supported_token", "-", token_sac, NoRun, 0)
    /\ UNCHANGED <<pool, positions, collateral_balance, ledger, oracle_price,
                   pool_custody, coll_custody, vault_balance, vault_custody>>

remove_supported_token(token_sac) ==
    /\ supported_token' = [supported_token EXCEPT ![token_sac] = FALSE]
    /\ UNCHANGED <<auth, instance>>
    /\ last' = Call("remove_supported_token", "-", token_sac, NoRun, 0)
    /\ UNCHANGED <<pool, positions, collateral_balance, ledger, oracle_price,
                   pool_custody, coll_custody, vault_balance, vault_custody>>

deposit_result(user, token_sac, amount) == assert_token_supported(token_sac)

\* The user's own wallet is outside the contract: it is taken to hold the
\* deposit.
deposit(user, token_sac, amount) ==
    /\ deposit_result(user, token_sac, amount) = "Ok"
    /\ vault_balance[<<user, token_sac>>] + amount <= MaxVaultBalance
    /\ vault_custody[token_sac] + amount <= MaxVaultBalance
    /\ vault_custody' = [vault_custody EXCEPT ![token_sac] = @ + amount]
    /\ vault_balance' = [vault_balance EXCEPT ![<<user, token_sac>>] = @ + amount]
    /\ UNCHANGED <<auth, instance>>
    /\ last' = Call("deposit", user, token_sac, NoRun, 0)
    /\ UNCHANGED <<pool, positions, collateral_balance, ledger, oracle_price,
                   pool_custody, coll_custody, supported_token>>

\* A faulty withdraw_result: it does not compare the amount with the recorded
\* balance.  C26 tells it from withdraw_result.
withdraw_result_unchecked(user, token_sac, amount) ==
    IF vault_custody[token_sac] < amount THEN "TransferFailed" ELSE "Ok"

withdraw_result(user, token_sac, amount) ==
    IF vault_balance[<<user, token_sac>>] < amount THEN "InsufficientBalance"
    ELSE IF vault_custody[token_sac] < amount THEN "TransferFailed"
    ELSE "Ok"

withdraw(user, token_sac, amount) ==
    /\ withdraw_result(user, token_sac, amount) = "Ok"
    /\ vault_custody' = [vault_custody EXCEPT ![token_sac] = @ - amount]
    /\ vault_balance' = [vault_balance EXCEPT ![<<user, token_sac>>] = @ - amount]
    /\ UNCHANGED <<auth, instance>>
    /\ last' = Call("withdraw", user, token_sac, NoRun, 0)
    /\ UNCHANGED <<pool, positions, collateral_balance, ledger, oracle_price,
                   pool_custody, coll_custody, supported_token>>

agent_withdraw_result(user, token_sac, amount, session) ==
    IF assert_agent_authorized(session) # "Ok" THEN "AgentSessionInvalid"
    ELSE IF vault_balance[<<user, token_sac>>] < amount THEN "InsufficientBalance"
    ELSE IF vault_custody[token_sac] < amount THEN "TransferFailed"
    ELSE "Ok"

\* The destination is a wallet outside the contract.
agent_withdraw(user, token_sac, amount, session) ==
    /\ agent_withdraw_result(user, token_sac, amount, session) = "Ok"
    /\ vault_custody' = [vault_custody EXCEPT ![token_sac] = @ - amount]
    /\ vault_balance' = [vault_balance EXCEPT ![<<user, token_sac>>] = @ - amount]
    /\ UNCHANGED <<auth, instance>>
    /\ last' = Call("agent_withdraw", user, token_sac, NoRun, 0)
    /\ UNCHANGED <<pool, positions, collateral_balance, ledger, oracle_price,
                   pool_custody, coll_custody, supported_token>>

agent_return_funds_result(user, token_sac, amount, session) ==
    IF assert_agent_authorized(session) # "Ok" THEN "AgentSessionInvalid"
    ELSE "Ok"

\* The contract makes no transfer: it credits the balance and trusts that the
\* agent has sent the tokens.
agent_return_funds(user, token_sac, amount, session) ==
    /\ agent_return_funds_result(user, token_sac, amount, session) = "Ok"
    /\ vault_balance[<<user, token_sac>>] + amount <= MaxVaultBalance
    /\ vault_balance' = [vault_balance EXCEPT ![<<user, token_sac>>] = @ + amount]
    /\ UNCHANGED <<auth, instance>>
    /\ last' = Call("agent_return_funds", user, token_sac, NoRun, 0)
    /\ UNCHANGED <<pool, positions, collateral_balance, ledger, oracle_price,
                   pool_custody, coll_custody, supported_token, vault_custody>>

\* Read-only: the recorded balance, 0 for a missing key
get_balance(user, token_sac) == vault_balance[<<user, token_sac>>]

RECURSIVE get_all_balances(_, _)
\* Read-only: the map built by one balances.set(token, get_balance(..)) per
\* element of tokens, a later set of the same token replacing the earlier
get_all_balances(user, tokens) ==
    IF tokens = <<>> THEN <<>>
    ELSE LET n == Len(tokens)
             balances == get_all_balances(user, SubSeq(tokens, 1, n - 1))
         IN  [t \in DOMAIN balances \cup {tokens[n]} |->
                 IF t = tokens[n] THEN get_balance(user, tokens[n])
                 ELSE balances[t]]

\* ------------------------------------------------------------------------
\* The session service (contracts/zk_auth/src/lib.rs)
\* ------------------------------------------------------------------------
has_session(user) == user \in DOMAIN active_session

remove_session(user) ==
    [v \in DOMAIN active_session \ {user} |-> active_session[v]]

store_session(user, session) ==
    [v \in DOMAIN active_session \cup {user} |->
        IF v = user THEN session ELSE active_session[v]]

\* A faulty is_session_valid: the session still counts at its expiry ledger.
\* C22 tells it from is_session_valid.
is_session_valid_at_expiry(user) ==
    IF has_session(user)
    THEN ledger <= active_session[user].expires_at_ledger
    ELSE FALSE

is_session_valid(user) ==
    IF has_session(user)
    THEN ledger < active_session[user].expires_at_ledger
    ELSE FALSE

get_agent_pubkey(user) ==
    IF has_session(user) /\ ledger < active_session[user].expires_at_ledger
    THEN active_session[user].agent_pubkey
    ELSE None

\* what leverage_pool and agent_vault learn about the user from the two reads
session_of(user) ==
    [is_session_valid |-> is_session_valid(user),
     has_agent_pubkey |-> get_agent_pubkey(user) # None]

\* proof_ok: whether the pairing check of verify_groth16 accepts the proof
start_session_result(user, agent_pubkey, session_duration_ledgers, proof_ok) ==
    IF \/ session_duration_ledgers < MIN_SESSION_LEDGERS
       \/ session_duration_ledgers > MAX_SESSION_LEDGERS
    THEN "InvalidSessionDuration"
    ELSE IF "VerifyingKey" \notin DOMAIN instance.zk_auth THEN "NotInitialized"
    ELSE IF ~proof_ok THEN "ProofVerificationFailed"
    ELSE "Ok"

\* the Session start_session stores
new_session(user, agent_pubkey, session_duration_ledgers) ==
    [session_id |-> session_counter[user] + 1,
     agent_pubkey |-> agent_pubkey,
     expires_at_ledger |-> ledger + session_duration_ledgers,
     created_at_ledger |-> ledger,
     nonce |-> 0]

\* `last` keeps the id of the valid session the call replaced (NoRun when
\* there was none) in start, and the duration asked for in credit.
start_session_call(user, agent_pubkey, session_duration_ledgers) ==
    Call("start_session", user, agent_pubkey,
         IF is_session_valid(user) THEN active_session[user].session_id ELSE NoRun,
         session_duration_ledgers)

\* A faulty start_session: a session that is still valid is not replaced.
\* C23 tells it from start_session.
start_session_keeps_valid(user, agent_pubkey, session_duration_ledgers, proof_ok) ==
    /\ start_session_result(user, agent_pubkey, session_duration_ledgers, proof_ok) = "Ok"
    /\ session_counter[user] < MaxSessions
    /\ session_counter' = [session_counter EXCEPT ![user] = @ + 1]
    /\ active_session' =
           IF is_session_valid(user) THEN active_session
           ELSE store_session(user, new_session(user, agent_pubkey,
                                                session_duration_ledgers))
    /\ UNCHANGED instance
    /\ last' = start_session_call(user, agent_pubkey, session_duration_ledgers)
    /\ UNCHANGED <<pool, positions, collateral_balance, ledger, oracle_price,
                   pool_custody, coll_custody, vault>>

start_session(user, agent_pubkey, session_duration_ledgers, proof_ok) ==
    /\ start_session_result(user, agent_pubkey, session_duration_ledgers, proof_ok) = "Ok"
    /\ session_counter[user] < MaxSessions
    /\ session_counter' = [session_counter EXCEPT ![user] = @ + 1]
    /\ active_session' =
           store_session(user, new_session(user, agent_pubkey,
                                           session_duration_ledgers))
    /\ UNCHANGED instance
    /\ last' = start_session_call(user, agent_pubkey, session_duration_ledgers)
    /\ UNCHANGED <<pool, positions, collateral_balance, ledger, oracle_price,
                   pool_custody, coll_custody, vault>>

\* `last` keeps the session_id the call publishes: 0 when there was no
\* session.
invalidate_session_call(user) ==
    Call("invalidate_session", user, "-",
         IF has_session(user) THEN active_session[user].session_id ELSE 0, 0)

\* A faulty invalidate_session: it removes every user's session.  C24 tells
\* it from invalidate_session.
invalidate_session_of_all(user) ==
    /\ active_session' = <<>>
    /\ UNCHANGED <<session_counter, instance>>
    /\ last' = invalidate_session_call(user)
    /\ UNCHANGED <<pool, positions, collateral_balance, ledger, oracle_price,
                   pool_custody, coll_custody, vault>>

\* No error if the user has no session.
invalidate_session(user) ==
    /\ active_session' = remove_session(user)
    /\ UNCHANGED <<session_counter, instance>>
    /\ last' = invalidate_session_call(user)
    /\ UNCHANGED <<pool, positions, collateral_balance, ledger, oracle_price,
                   pool_custody, coll_custody, vault>>

\* ------------------------------------------------------------------------
\* initialize of the three contracts
\* ------------------------------------------------------------------------
\* instance().has(&DataKey::Admin)
has_admin(contract_instance) == "Admin" \in DOMAIN contract_instance

\* the instance storage of the three contracts before initialize
EmptyInstances == [leverage_pool |-> <<>>, agent_vault |-> <<>>, zk_auth |-> <<>>]

\* A faulty initialize of the pool: it does not look for a stored admin.  C25
\* tells it from leverage_pool_initialize_result.
leverage_pool_initialize_result_again(admin, borrow_rate_bps, min_health_bps) == "Ok"

leverage_pool_initialize_result(admin, borrow_rate_bps, min_health_bps) ==
    IF has_admin(instance.leverage_pool) THEN "AlreadyInitialized" ELSE "Ok"

\* initialize of LeveragePool: the configuration, then the three totals at 0
leverage_pool_initialize(admin, borrow_rate_bps, min_health_bps) ==
    /\ leverage_pool_initialize_result(admin, borrow_rate_bps, min_health_bps) = "Ok"
    /\ instance' = [instance EXCEPT !.leverage_pool =
                        pool_instance(admin, borrow_rate_bps, min_health_bps)]
    /\ total_liquidity' = 0
    /\ total_borrowed' = 0
    /\ total_shares' = 0
    /\ UNCHANGED <<vault, auth>>
    /\ last' = Call("leverage_pool_initialize", admin, "-", NoRun, 0)
    /\ UNCHANGED <<lp_shares, positions, collateral_balance, ledger, oracle_price,
                   pool_custody, coll_custody>>

agent_vault_initialize_result(admin, zkauth_contract) ==
    IF has_admin(instance.agent_vault) THEN "AlreadyInitialized" ELSE "Ok"

agent_vault_initialize(admin, zkauth_contract) ==
    /\ agent_vault_initialize_result(admin, zkauth_contract) = "Ok"
    /\ instance' = [instance EXCEPT !.agent_vault =
                        vault_instance(admin, zkauth_contract)]
    /\ UNCHANGED <<vault, auth>>
    /\ last' = Call("agent_vault_initialize", admin, "-", NoRun, 0)
    /\ UNCHANGED <<pool, positions, collateral_balance, ledger, oracle_price,
                   pool_custody, coll_custody>>

zk_auth_initialize_result(admin, verifying_key) ==
    IF has_admin(instance.zk_auth) THEN "AlreadyInitialized" ELSE "Ok"

zk_auth_initialize(admin, verifying_key) ==
    /\ zk_auth_initialize_result(admin, verifying_key) = "Ok"
    /\ instance' = [instance EXCEPT !.zk_auth = zk_instance(admin, verifying_key)]
    /\ UNCHANGED <<vault, auth>>
    /\ last' = Call("zk_auth_initialize", admin, "-", NoRun, 0)
    /\ UNCHANGED <<pool, positions, collateral_balance, ledger, oracle_price,
                   pool_custody, coll_custody>>

\* ------------------------------------------------------------------------
\* Environment: the ledger clock, the oracle
\* ------------------------------------------------------------------------
advance_ledger ==
    /\ ledger < MaxLedgerSteps * LedgerStep
    /\ ledger' = ledger + LedgerStep
    /\ UNCHANGED vault
    /\ UNCHANGED <<auth, instance>>
    /\ last' = NoCall("advance_ledger")
    /\ UNCHANGED <<pool, positions, collateral_balance, oracle_price,
                   pool_custody, coll_custody>>

\* the clock at the pace sessions are followed at
session_ledger_passes ==
    /\ ledger < MaxSessionLedgerSteps * SessionLedgerStep
    /\ ledger' = ledger + SessionLedgerStep
    /\ UNCHANGED <<vault, auth, instance>>
    /\ last' = NoCall("session_ledger_passes")
    /\ UNCHANGED <<pool, positions, collateral_balance, oracle_price,
                   pool_custody, coll_custody>>

oracle_update(price) ==
    /\ oracle_price # price
    /\ oracle_price' = price
    /\ UNCHANGED vault
    /\ UNCHANGED <<auth, instance>>
    /\ last' = NoCall("oracle_update")
    /\ UNCHANGED <<pool, positions, collateral_balance, ledger,
                   pool_custody, coll_custody>>

\* ------------------------------------------------------------------------
\* Specifications
\* ------------------------------------------------------------------------
\* Spec: one trader and one liquidity provider use the pool while the ledger
\* advances and the oracle moves (or fails).
Trader == {"u1"}
Provider == {"lp1"}

LpDeposit == \E lp \in Provider, amount \in LpAmounts : lp_deposit(lp, amount)
LpWithdraw ==
    \E lp \in Provider : \E shares \in 1..lp_shares[lp] : lp_withdraw(lp, shares)
DepositCollateral ==
    \E user \in Trader, token \in Tokens, amount \in CollAmounts :
        deposit_collateral(user, token, amount)
WithdrawCollateral ==
    \E user \in Trader, token \in Tokens, amount \in CollAmounts :
        withdraw_collateral(user, token, amount)
OpenPosition ==
    \E user \in Trader, token \in Tokens, borrow_amount \in BorrowAmounts,
       direction \in Directions, session \in Sessions :
        open_position(user, token, borrow_amount, direction, session)
ClosePosition == \E user \in Trader, session \in Sessions : close_position(user, session)
AccrueInterest == \E user \in Trader : accrue_interest(user)
Liquidate == \E user \in Trader : liquidate(user)
AdvanceLedger == advance_ledger
OracleUpdate == \E price \in Prices \cup {NoPrice} : oracle_update(price)

Next ==
    \/ LpDeposit
    \/ LpWithdraw
    \/ DepositCollateral
    \/ WithdrawCollateral
    \/ OpenPosition
    \/ ClosePosition
    \/ AccrueInterest
    \/ Liquidate
    \/ AdvanceLedger
    \/ OracleUpdate

Spec == Init /\ [][Next]_vars

\* SpecLPs: the same trader, and every liquidity provider.
AnyLpDeposit == \E lp \in LPs, amount \in LpAmounts : lp_deposit(lp, amount)
AnyLpWithdraw ==
    \E lp \in LPs : \E shares \in 1..lp_shares[lp] : lp_withdraw(lp, shares)
OraclePrice == \E price \in Prices : oracle_update(price)

NextLPs ==
    \/ AnyLpDeposit
    \/ AnyLpWithdraw
    \/ DepositCollateral
    \/ WithdrawCollateral
    \/ OpenPosition
    \/ ClosePosition
    \/ AccrueInterest
    \/ Liquidate
    \/ AdvanceLedger
    \/ OraclePrice

SpecLPs == Init /\ [][NextLPs]_vars

\* SpecAgents: the calls made through a delegated agent, on the pool and on
\* the vault, with the calls that fund them.
AddSupportedToken == \E token_sac \in VaultTokens : add_supported_token(token_sac)
RemoveSupportedToken == \E token_sac \in VaultTokens : remove_supported_token(token_sac)
VaultDeposit ==
    \E user \in Trader, token_sac \in VaultTokens, amount \in VaultAmounts :
        deposit(user, token_sac, amount)
VaultWithdraw ==
    \E user \in Trader, token_sac \in VaultTokens, amount \in VaultAmounts :
        withdraw(user, token_sac, amount)
AgentWithdraw ==
    \E user \in Trader, token_sac \in VaultTokens, amount \in VaultAmounts,
       session \in Sessions :
        agent_withdraw(user, token_sac, amount, session)
AgentReturnFunds ==
    \E user \in Trader, token_sac \in VaultTokens, amount \in VaultAmounts,
       session \in Sessions :
        agent_return_funds(user, token_sac, amount, session)

NextAgents ==
    \/ AddSupportedToken
    \/ RemoveSupportedToken
    \/ VaultDeposit
    \/ VaultWithdraw
    \/ AgentWithdraw
    \/ AgentReturnFunds
    \/ LpDeposit
    \/ DepositCollateral
    \/ OpenPosition
    \/ ClosePosition

SpecAgents == Init /\ [][NextAgents]_vars

\* The session service with two users, and the clock
StartSession ==
    \E user \in Users, agent_pubkey \in AgentKeys,
       session_duration_ledgers \in SessionDurations, proof_ok \in BOOLEAN :
        start_session(user, agent_pubkey, session_duration_ledgers, proof_ok)
InvalidateSession == \E user \in Users : invalidate_session(user)
SessionLedgerPasses == session_ledger_passes

NextSessions ==
    \/ StartSession
    \/ InvalidateSession
    \/ SessionLedgerPasses

SpecSessions == Init /\ [][NextSessions]_vars

\* The three contracts from their deployment on.  Before its initialize a
\* contract serves no call that reads its configuration: lp_deposit unwraps
\* PoolAsset, add_supported_token panics NotInitialized without an admin, and
\* start_session panics NotInitialized without a verifying key.
InitRates == {BorrowRateBps, 2 * BorrowRateBps}
VerifyingKeys == {"vk", "vk2"}
ZkAuthContracts == {"zk_auth", "zk_auth2"}

Deployed ==
    /\ total_liquidity = 0
    /\ total_borrowed = 0
    /\ total_shares = 0
    /\ lp_shares = [l \in LPs |-> 0]
    /\ positions = <<>>
    /\ collateral_balance = [k \in Users \X Tokens |-> 0]
    /\ ledger = 0
    /\ oracle_price = 10000000
    /\ pool_custody = 0
    /\ coll_custody = [t \in Tokens |-> 0]
    /\ vault_balance = [k \in Users \X VaultTokens |-> 0]
    /\ supported_token = [t \in VaultTokens |-> FALSE]
    /\ vault_custody = [t \in VaultTokens |-> 0]
    /\ active_session = <<>>
    /\ session_counter = [u \in Users |-> 0]
    /\ instance = EmptyInstances
    /\ last = NoCall("deploy")

LeveragePoolInitialize ==
    \E admin \in Admins, borrow_rate_bps \in InitRates :
        leverage_pool_initialize(admin, borrow_rate_bps, MinHealthBps)
AgentVaultInitialize ==
    \E admin \in Admins, zkauth_contract \in ZkAuthContracts :
        agent_vault_initialize(admin, zkauth_contract)
ZkAuthInitialize ==
    \E admin \in Admins, verifying_key \in VerifyingKeys :
        zk_auth_initialize(admin, verifying_key)
DeployedLpDeposit ==
    /\ "PoolAsset" \in DOMAIN instance.leverage_pool
    /\ \E lp \in Provider, amount \in LpAmounts : lp_deposit(lp, amount)
DeployedLpWithdraw ==
    /\ "PoolAsset" \in DOMAIN instance.leverage_pool
    /\ \E lp \in Provider, shares \in LpAmounts : lp_withdraw(lp, shares)
DeployedAddSupportedToken ==
    /\ has_admin(instance.agent_vault)
    /\ \E token_sac \in VaultTokens : add_supported_token(token_sac)
DeployedStartSession ==
    \E agent_pubkey \in AgentKeys :
        start_session("u1", agent_pubkey, MIN_SESSION_LEDGERS, TRUE)

NextDeploy ==
    \/ LeveragePoolInitialize
    \/ AgentVaultInitialize
    \/ ZkAuthInitialize
    \/ DeployedLpDeposit
    \/ DeployedLpWithdraw
    \/ DeployedAddSupportedToken
    \/ DeployedStartSession

SpecDeploy == Deployed /\ [][NextDeploy]_vars

\* SpecLiquidations: two traders who each deposited the smallest collateral
\* with a liquidation bonus of one unit borrow from one provider's liquidity;
\* the oracle price collapses and anyone liquidates.
BonusCollateral == BPS_DENOM \div LiquidationBonusBps
CrashedPrice == PRICE_SCALAR \div 20

Collateralized ==
    /\ total_liquidity = 0
    /\ total_borrowed = 0
    /\ total_shares = 0
    /\ lp_shares = [l \in LPs |-> 0]
    /\ positions = <<>>
    /\ collateral_balance =
           [k \in Users \X Tokens |-> IF k[2] = "XLM" THEN BonusCollateral ELSE 0]
    /\ ledger = 0
    /\ oracle_price = PRICE_SCALAR
    /\ pool_custody = 0
    /\ coll_custody =
           [t \in Tokens |-> IF t = "XLM" THEN Cardinality(Users) * BonusCollateral
                             ELSE 0]
    /\ vault_balance = [k \in Users \X VaultTokens |-> 0]
    /\ supported_token = [t \in VaultTokens |-> FALSE]
    /\ vault_custody = [t \in VaultTokens |-> 0]
    /\ active_session = <<>>
    /\ session_counter = [u \in Users |-> 0]
    /\ instance = [leverage_pool |-> pool_instance("admin", BorrowRateBps, MinHealthBps),
                   agent_vault |-> vault_instance("admin", "zk_auth"),
                   zk_auth |-> zk_instance("admin", "vk")]
    /\ last = Call("deposit_collateral", "u2", "XLM", 0, BonusCollateral)

AnyOpenPosition ==
    \E user \in Users, borrow_amount \in 1..MaxBorrow :
        open_position(user, "XLM", borrow_amount, "Long", ValidSession)
AnyAccrueInterest == \E user \in Users : accrue_interest(user)
AnyLiquidate == \E user \in Users : liquidate(user)
PriceCollapse == \E price \in {PRICE_SCALAR, CrashedPrice} : oracle_update(price)

NextLiquidations ==
    \/ LpDeposit
    \/ AnyOpenPosition
    \/ AnyAccrueInterest
    \/ AnyLiquidate
    \/ AdvanceLedger
    \/ PriceCollapse

SpecLiquidations == Collateralized /\ [][NextLiquidations]_vars

\* SpecSteadyPrice: the pool while the oracle price stays where it was, so
\* that every position is closed at the price it was opened at; the ledger
\* advances.
NextSteadyPrice ==
    \/ LpDeposit
    \/ DepositCollateral
    \/ OpenPosition
    \/ AccrueInterest
    \/ ClosePosition
    \/ AdvanceLedger

SpecSteadyPrice == Init /\ [][NextSteadyPrice]_vars

\* ------------------------------------------------------------------------
\* Properties
\* ------------------------------------------------------------------------
RECURSIVE SumOver(_, _)
\* the sum of f[x] over the finite set S
SumOver(S, f) ==
    IF S = {} THEN 0
    ELSE LET x == CHOOSE y \in S : TRUE
         IN  f[x] + SumOver(S \ {x}, f)

\* free collateral of every user in one token
FreeCollateral(token) ==
    SumOver(Users, [u \in Users |-> collateral_balance[<<u, token>>]])

\* collateral snapshotted in the open positions on one token
LockedCollateral(token) ==
    SumOver(DOMAIN positions,
            [u \in DOMAIN positions |->
                IF positions[u].collateral_token = token
                THEN positions[u].collateral_amount ELSE 0])

\* C1: in every reachable state total_borrowed <= total_liquidity.
C1_BorrowedWithinLiquidity == total_borrowed <= total_liquidity

\* C2: a deposit_collateral, withdraw_collateral, open_position or
\* close_position step changes the collateral attributed to users (free
\* balances plus collateral locked in positions) by exactly what it moves into
\* or out of the contract's custody.
C2_CollateralConserved ==
    [][\A token \in Tokens :
          last'.op \in {"deposit_collateral", "withdraw_collateral",
                        "open_position", "close_position"}
          => (FreeCollateral(token)' + LockedCollateral(token)')
                 - (FreeCollateral(token) + LockedCollateral(token))
             = coll_custody'[token] - coll_custody[token]]_vars

\* C9: total_shares is zero exactly when total_liquidity is zero.
C9_SharesIffLiquidity == (total_shares = 0) <=> (total_liquidity = 0)

\* C10: the pool totals, every free collateral balance and every LP share
\* balance are never negative.
C10_NonNegative ==
    /\ total_liquidity >= 0
    /\ total_borrowed >= 0
    /\ total_shares >= 0
    /\ \A k \in Users \X Tokens : collateral_balance[k] >= 0
    /\ \A lp \in LPs : lp_shares[lp] >= 0

\* what LP A would receive for all its shares
Redeemable(A) == MulDiv(lp_shares[A], total_liquidity, total_shares)

\* C3: an lp_deposit or lp_withdraw by one LP never lowers what another LP,
\* holding shares, would receive for them: floor(k * total_liquidity /
\* total_shares) after the call is at least its value before the call.
C3_ShareMonotonic ==
    [][\A A \in LPs :
          (/\ last'.op \in {"lp_deposit", "lp_withdraw"}
           /\ last'.who # A
           /\ lp_shares[A] > 0)
          => Redeemable(A)' >= Redeemable(A)]_vars

\* another LP has just deposited or withdrawn at a share price other than 1
\* while lp1 holds shares
C3_Witness ==
    /\ last.op \in {"lp_deposit", "lp_withdraw"}
    /\ last.who = "lp2"
    /\ lp_shares["lp1"] > 0
    /\ total_liquidity < total_shares
    /\ total_liquidity > 0

\* the preconditions C4 puts on an open_position call
OpenPreconditions(user, token, borrow_amount) ==
    /\ ~has_position(user)
    /\ has_config(token)
    /\ collateral_configs[token].is_active
    /\ ~oracle_fails
    /\ borrow_amount <= total_liquidity - total_borrowed

\* the health of the position the call would open
InitialHealth(user, token, borrow_amount) ==
    compute_health(collateral_balance[<<user, token>>], oracle_price,
                   factor_of(token), borrow_amount)

C5_LiquidationGate ==
    \A user \in Users :
        (has_position(user) /\ ~oracle_fails) =>
            IF liquidation_health(accrued_position(user)) >= MinHealthBps
            THEN liquidate_result(user) = "PositionHealthy"
            ELSE liquidate_result(user) = "Ok"

\* C6: an accrue_interest call made when the ledger has not passed the
\* position's last_interest_ledger changes neither the position nor
\* total_borrowed, and after any accrue_interest call a second one has no
\* interest left to charge.
C6_AccrueIdempotent ==
    [][\A user \in Users :
          (/\ last'.op = "accrue_interest"
           /\ last'.who = user
           /\ has_position(user))
          => /\ ledger <= positions[user].last_interest_ledger
                   => (positions' = positions /\ total_borrowed' = total_borrowed)
             /\ interest_due(positions'[user], BorrowRateBps, ledger') = 0]_vars

\* accrue_interest has just been called on a position with debt, opened at
\* the current ledger
C6_Witness ==
    /\ last.op = "accrue_interest"
    /\ has_position(last.who)
    /\ positions[last.who].borrowed_amount > 0
    /\ positions[last.who].opened_at_ledger = ledger
    /\ positions[last.who].last_interest_ledger = ledger

\* C7: an accrue_interest call on a position with debt b, made elapsed > 0
\* ledgers after its last_interest_ledger, adds exactly
\* floor(b * rate * elapsed / (10000 * INTEREST_PERIOD)) to the position's
\* borrowed_amount and to total_borrowed; b = 3000 at rate 500 over 1000
\* ledgers gives 150.
C7_InterestAmount ==
    [][/\ interest_due([borrowed_amount |-> 3000, last_interest_ledger |-> 0],
                       500, 1000) = 150
       /\ \A user \in Users :
             (/\ last'.op = "accrue_interest"
              /\ last'.who = user
              /\ has_position(user)
              /\ ledger > positions[user].last_interest_ledger)
             => LET b == positions[user].borrowed_amount
                    elapsed == ledger - positions[user].last_interest_ledger
                    delta == (b * BorrowRateBps * elapsed) \div (10000 * INTEREST_PERIOD)
                IN  /\ positions'[user].borrowed_amount = b + delta
                    /\ total_borrowed' = total_borrowed + delta]_vars

\* accrue_interest has just charged interest to a position
C7_Witness ==
    /\ last.op = "accrue_interest"
    /\ has_position(last.who)
    /\ positions[last.who].last_interest_ledger > positions[last.who].opened_at_ledger
    /\ positions[last.who].last_interest_ledger = ledger
    /\ total_borrowed > 0

\* C8: during a run of one user's collateral calls on one token that began
\* with a deposit, the free balance is the balance before the deposit plus
\* what of the deposit has not been withdrawn again, and, the user having no
\* position, withdrawing any part of that remainder succeeds.
C8_CollateralRoundTrip ==
    (last.op \in {"deposit_collateral", "withdraw_collateral"} /\ last.start # NoRun)
    => /\ collateral_balance[<<last.who, last.tok>>] = last.start + last.credit
       /\ ~has_position(last.who)
             => \A W \in 1..last.credit :
                   withdraw_collateral_result(last.who, last.tok, W) = "Ok"

\* a deposit has just been withdrawn again in full, by a user with no
\* position, and the balance is back at its value before the deposit
C8_Witness ==
    /\ last.op = "withdraw_collateral"
    /\ last.start # NoRun
    /\ last.credit = 0
    /\ ~has_position(last.who)
    /\ collateral_balance[<<last.who, last.tok>>] = last.start

\* C11: a user has at most one Position: for a user who has one,
\* open_position with a valid session is rejected with PositionAlreadyOpen
\* whatever its arguments, with any session it is rejected, and no step of
\* the contract is an open_position of that user, so the Position, the totals
\* and the balances stay as they are.
C11_OnePositionPerUser ==
    [][\A user \in Users :
          has_position(user) =>
             /\ \A token \in Tokens, borrow_amount \in BorrowAmounts :
                   /\ open_position_result(user, token, borrow_amount, ValidSession)
                          = "PositionAlreadyOpen"
                   /\ \A session \in Sessions :
                         open_position_result(user, token, borrow_amount, session) # "Ok"
             /\ ~(last'.op = "open_position" /\ last'.who = user)]_vars

\* a user has a position and would pass every other check of open_position
C11_Witness ==
    /\ has_position("u1")
    /\ ~oracle_fails
    /\ collateral_balance[<<"u1", "XLM">>] > 0
    /\ total_liquidity - total_borrowed > 0
    /\ InitialHealth("u1", "XLM", 1) >= (MinHealthBps * 150) \div 100
    /\ open_position_result("u1", "XLM", 1, ValidSession) = "PositionAlreadyOpen"

\* C12: lp_deposit(lp, amount) issues amount shares when total_shares is 0
\* and floor(amount * total_shares / total_liquidity) shares otherwise, adds
\* them to the LP's balance and to total_shares and adds amount to
\* total_liquidity; when shares and liquidity are equal they stay equal.
C12_LpDepositShares ==
    [][\A lp \in LPs :
          (last'.op = "lp_deposit" /\ last'.who = lp) =>
             LET amount == total_liquidity' - total_liquidity
                 new_shares == IF total_shares = 0 THEN amount
                               ELSE (amount * total_shares) \div total_liquidity
             IN  /\ amount \in LpAmounts
                 /\ lp_shares'[lp] = lp_shares[lp] + new_shares
                 /\ total_shares' = total_shares + new_shares
                 /\ \A other \in LPs \ {lp} : lp_shares'[other] = lp_shares[other]
                 /\ total_shares = total_liquidity => total_shares' = total_liquidity']_vars

\* a second LP has just deposited at a share price other than 1
C12_Witness ==
    /\ last.op = "lp_deposit"
    /\ last.who = "lp2"
    /\ lp_shares["lp1"] > 0
    /\ lp_shares["lp2"] > 0
    /\ total_shares > total_liquidity

\* C13: lp_withdraw(lp, shares) is rejected when the LP holds fewer than
\* shares, and with InsufficientPoolLiquidity when floor(shares *
\* total_liquidity / total_shares) exceeds total_liquidity - total_borrowed;
\* a successful one pays out exactly that amount and takes shares from the
\* LP's balance and total_shares and the amount from total_liquidity.
C13_LpWithdraw ==
    [][\A lp \in LPs :
          /\ \A shares \in 1..MaxShares :
                /\ lp_shares[lp] < shares => lp_withdraw_result(lp, shares) # "Ok"
                /\ (/\ lp_shares[lp] >= shares
                    /\ (shares * total_liquidity) \div total_shares
                           > total_liquidity - total_borrowed)
                   => lp_withdraw_result(lp, shares) = "InsufficientPoolLiquidity"
          /\ (last'.op = "lp_withdraw" /\ last'.who = lp) =>
                LET shares == lp_shares[lp] - lp_shares'[lp]
                    redeem_amount == (shares * total_liquidity) \div total_shares
                IN  /\ shares \in 1..lp_shares[lp]
                    /\ redeem_amount <= total_liquidity - total_borrowed
                    /\ total_shares' = total_shares - shares
                    /\ total_liquidity' = total_liquidity - redeem_amount
                    /\ pool_custody' = pool_custody - redeem_amount]_vars

\* an LP has just withdrawn part of its shares and the rest cannot be
\* redeemed because the liquidity is out on loan
C13_Witness ==
    /\ last.op = "lp_withdraw"
    /\ last.who = "lp1"
    /\ lp_shares["lp1"] > 0
    /\ total_borrowed > 0
    /\ lp_withdraw_result("lp1", lp_shares["lp1"]) = "InsufficientPoolLiquidity"

\* the health withdraw_collateral computes on the balance left after the
\* withdrawal
PostWithdrawHealth(user, token, amount) ==
    compute_health(collateral_balance[<<user, token>>] - amount, oracle_price,
                   factor_of(token), positions[user].borrowed_amount)

\* C14: while the user has a Position on the asset with debt,
\* withdraw_collateral succeeds only if the health of the remaining balance
\* at the current price is at least 120% of MinHealthBps and is otherwise
\* rejected with WithdrawalWouldLiquidate; with no such position it
\* succeeds exactly when balance >= amount.
C14_WithdrawGate ==
    \A user \in Users, token \in Tokens, amount \in CollAmounts :
        IF withdraw_checks_health(user, token)
        THEN (collateral_balance[<<user, token>>] >= amount /\ ~oracle_fails) =>
                IF PostWithdrawHealth(user, token, amount) >= (MinHealthBps * 120) \div 100
                THEN withdraw_collateral_result(user, token, amount)
                         # "WithdrawalWouldLiquidate"
                ELSE withdraw_collateral_result(user, token, amount)
                         = "WithdrawalWouldLiquidate"
        ELSE (withdraw_collateral_result(user, token, amount) = "Ok")
                 <=> (collateral_balance[<<user, token>>] >= amount)

\* the checks of open_position that precede the reading of the collateral
OpenReachesCollateral(user, token) ==
    /\ ~has_position(user)
    /\ has_config(token)
    /\ collateral_configs[token].is_active

\* floor(free_collateral * price * factor_bps / (10000 * PRICE_SCALAR))
MaxBorrowable(user, token) ==
    collateral_value_of(collateral_balance[<<user, token>>], oracle_price,
                        factor_of(token))

\* C15: an open_position that reaches these checks is rejected with
\* InsufficientCollateral when the free collateral is not > 0, with
\* BorrowExceedsCollateral when borrow_amount exceeds floor(collateral *
\* price * factor / (10000 * PRICE_SCALAR)), and with
\* InsufficientPoolLiquidity when borrow_amount exceeds total_liquidity -
\* total_borrowed; no open_position step is taken in any of these cases, so
\* totals, balances and positions stay as they are.
C15_OpenRejections ==
    [][\A user \in Users, token \in Tokens, borrow_amount \in BorrowAmounts :
          OpenReachesCollateral(user, token) =>
             /\ collateral_balance[<<user, token>>] <= 0
                   => open_position_result(user, token, borrow_amount, ValidSession)
                          = "InsufficientCollateral"
             /\ (/\ collateral_balance[<<user, token>>] > 0
                 /\ ~oracle_fails
                 /\ borrow_amount > MaxBorrowable(user, token))
                   => open_position_result(user, token, borrow_amount, ValidSession)
                          = "BorrowExceedsCollateral"
             /\ (/\ collateral_balance[<<user, token>>] > 0
                 /\ ~oracle_fails
                 /\ borrow_amount <= MaxBorrowable(user, token)
                 /\ borrow_amount > total_liquidity - total_borrowed)
                   => open_position_result(user, token, borrow_amount, ValidSession)
                          = "InsufficientPoolLiquidity"
             /\ (/\ last'.op = "open_position"
                 /\ last'.who = user
                 /\ last'.tok = token
                 /\ positions'[user].borrowed_amount = borrow_amount)
                   => /\ collateral_balance[<<user, token>>] > 0
                      /\ borrow_amount <= MaxBorrowable(user, token)
                      /\ borrow_amount <= total_liquidity - total_borrowed]_vars

\* one state in which each of the three rejections arises
C15_Witness ==
    /\ ~has_position("u1")
    /\ open_position_result("u1", "XLM", 1, ValidSession) = "InsufficientPoolLiquidity"
    /\ open_position_result("u1", "XLM", 2, ValidSession) = "BorrowExceedsCollateral"
    /\ open_position_result("u2", "XLM", 1, ValidSession) = "InsufficientCollateral"

\* C16: a successful open_position creates a Position with the borrow
\* amount, the user's free collateral balance of the asset and the current
\* ledger as opened_at and last_interest_ledger, adds the borrow amount to
\* total_borrowed and leaves total_liquidity, total_shares, the LP share
\* balances and every free collateral balance as they are.
C16_OpenEffect ==
    [][\A user \in Users :
          (last'.op = "open_position" /\ last'.who = user) =>
             /\ ~has_position(user)
             /\ has_position(user)'
             /\ positions'[user].collateral_token = last'.tok
             /\ positions'[user].collateral_amount
                    = collateral_balance[<<user, last'.tok>>]
             /\ positions'[user].opened_at_ledger = ledger
             /\ positions'[user].last_interest_ledger = ledger
             /\ positions'[user].borrowed_amount \in BorrowAmounts
             /\ total_borrowed' = total_borrowed + positions'[user].borrowed_amount
             /\ total_liquidity' = total_liquidity
             /\ total_shares' = total_shares
             /\ lp_shares' = lp_shares
             /\ collateral_balance' = collateral_balance
             /\ \A other \in DOMAIN positions : positions'[other] = positions[other]]_vars

\* a position with debt has just been opened at a later ledger and the
\* opener's free balance still holds the collateral
C16_Witness ==
    /\ last.op = "open_position"
    /\ has_position(last.who)
    /\ ledger > 0
    /\ positions[last.who].opened_at_ledger = ledger
    /\ positions[last.who].borrowed_amount > 0
    /\ collateral_balance[<<last.who, last.tok>>] > 0
    /\ total_borrowed >= positions[last.who].borrowed_amount

\* C17: when the session service reports the session invalid or returns no
\* delegated key, open_position and close_position of the pool and
\* agent_withdraw and agent_return_funds of the vault are rejected with
\* AgentSessionInvalid, whatever the other arguments and the state.
C17_AgentSessionGate ==
    \A session \in Sessions :
        (~session.is_session_valid \/ ~session.has_agent_pubkey) =>
            \A user \in Users :
                /\ \A token \in Tokens, borrow_amount \in BorrowAmounts :
                      open_position_result(user, token, borrow_amount, session)
                          = "AgentSessionInvalid"
                /\ close_position_result(user, session) = "AgentSessionInvalid"
                /\ \A token_sac \in VaultTokens, amount \in VaultAmounts :
                      /\ agent_withdraw_result(user, token_sac, amount, session)
                             = "AgentSessionInvalid"
                      /\ agent_return_funds_result(user, token_sac, amount, session)
                             = "AgentSessionInvalid"

\* a state in which close_position and agent_withdraw succeed with a valid
\* session, and a user without a position or a vault balance beside it
C17_Witness ==
    /\ close_position_result("u1", ValidSession) = "Ok"
    /\ agent_withdraw_result("u1", "USDC", 1, ValidSession) = "Ok"
    /\ close_position_result("u2", ValidSession) = "NoOpenPosition"
    /\ agent_withdraw_result("u2", "USDC", 1, ValidSession) = "InsufficientBalance"
    /\ last.op = "agent_return_funds"

\* the debt of user's position with the interest of the ledgers since
\* last_interest_ledger
FullDebt(user) ==
    positions[user].borrowed_amount
        + interest_due(positions[user], BorrowRateBps, ledger)

\* C18: a successful close_position(user) decreases total_borrowed by the
\* position's borrowed_amount with the interest accrued up to the current
\* ledger and deletes the position; for a user without a position
\* open_position does not answer PositionAlreadyOpen and close_position
\* fails with NoOpenPosition.
C18_CloseLifecycle ==
    [][ /\ \A user \in Users :
              ~has_position(user) =>
                  /\ close_position_result(user, ValidSession) = "NoOpenPosition"
                  /\ \A token \in Tokens, borrow_amount \in BorrowAmounts :
                        open_position_result(user, token, borrow_amount,
                                             ValidSession)
                            # "PositionAlreadyOpen"
        /\ \A user \in Users :
              (last'.op = "close_position" /\ last'.who = user) =>
                  /\ has_position(user)
                  /\ total_borrowed' = total_borrowed - FullDebt(user)
                  /\ ~has_position(user)'
                  /\ \A other \in Users \ {user} :
                        has_position(other)' = has_position(other)
      ]_vars

\* a close that took interest no accrue_interest call had added to
\* total_borrowed
C18_Witness ==
    /\ last.op = "close_position"
    /\ ~has_position("u1")
    /\ total_borrowed = 0 - 1

\* C19: close_position pays the user min(pnl, total_liquidity) of the pool
\* asset when pnl = floor(collateral_amount * price / PRICE_SCALAR) -
\* borrowed_amount is positive and takes the same amount from
\* total_liquidity, which stays at or above zero; when pnl <= 0 nothing is
\* paid and total_liquidity is unchanged.
C19_ClosePayoutCap ==
    [][ \A user \in Users :
          (last'.op = "close_position" /\ last'.who = user) =>
            LET pnl == ((positions[user].collateral_amount * oracle_price)
                            \div PRICE_SCALAR) - FullDebt(user)
                paid == pool_custody - pool_custody'
            IN  /\ pnl > 0 => paid = IF pnl < total_liquidity
                                     THEN pnl ELSE total_liquidity
                /\ pnl <= 0 => paid = 0
                /\ total_liquidity' = total_liquidity - paid
                /\ paid <= total_liquidity
                /\ total_liquidity' >= 0
      ]_vars

\* a profitable close that paid the pool's whole liquidity
C19_Witness ==
    /\ last.op = "close_position"
    /\ total_liquidity = 0
    /\ pool_custody = 0
    /\ total_shares > 0

\* C20: while the oracle returns no price, every call that gets to read the
\* price aborts with OracleCallFailed and no such call takes a step:
\* open_position past its checks of the position, the collateral type and
\* the free collateral, close_position, liquidate and get_health_ratio of a
\* user with a position, and withdraw_collateral of a covered amount against
\* a position in that token with debt.  deposit_collateral, lp_deposit,
\* lp_withdraw and withdraw_collateral without a position never answer
\* OracleCallFailed, and accrue_interest has no failing outcome.
C20_OracleFailureFatal ==
    [][ /\ oracle_fails =>
              /\ \A user \in Users :
                    /\ \A token \in Tokens, borrow_amount \in BorrowAmounts :
                          ( /\ OpenReachesCollateral(user, token)
                            /\ collateral_balance[<<user, token>>] > 0 ) =>
                              open_position_result(user, token, borrow_amount,
                                                   ValidSession)
                                  = "OracleCallFailed"
                    /\ has_position(user) =>
                          /\ close_position_result(user, ValidSession)
                                 = "OracleCallFailed"
                          /\ liquidate_result(user) = "OracleCallFailed"
                          /\ get_health_ratio_result(user) = "OracleCallFailed"
                    /\ \A token \in Tokens, amount \in CollAmounts :
                          ( /\ has_position(user)
                            /\ positions[user].collateral_token = token
                            /\ positions[user].borrowed_amount > 0
                            /\ amount <= collateral_balance[<<user, token>>] ) =>
                              withdraw_collateral_result(user, token, amount)
                                  = "OracleCallFailed"
              /\ last'.op \notin {"open_position", "close_position", "liquidate"}
              /\ \A user \in Users :
                    ( /\ last'.op = "withdraw_collateral"
                      /\ last'.who = user
                      /\ has_position(user) ) =>
                          \/ positions[user].borrowed_amount = 0
                          \/ positions[user].collateral_token # last'.tok
        /\ \A user \in Users, token \in Tokens, amount \in CollAmounts :
              /\ deposit_collateral_result(user, token, amount) # "OracleCallFailed"
              /\ ~has_position(user) =>
                    withdraw_collateral_result(user, token, amount)
                        # "OracleCallFailed"
        /\ \A lp \in LPs, amount \in LpAmounts :
              /\ lp_deposit_result(lp, amount) # "OracleCallFailed"
              /\ lp_withdraw_result(lp, amount) # "OracleCallFailed"
      ]_vars

\* the oracle has no price, the user has a position with debt and free
\* collateral, and accrue_interest has just run
C20_Witness ==
    /\ oracle_fails
    /\ has_position("u1")
    /\ positions["u1"].borrowed_amount > 0
    /\ withdraw_collateral_result("u1", "XLM", 1) = "OracleCallFailed"
    /\ last.op = "accrue_interest"

\* floor(collateral_amount * price * factor_bps / (10000 * PRICE_SCALAR)) for
\* a price that is a whole number of PRICE_SCALAR units, as every price of
\* Prices is
WholePriceValue(collateral_amount, price, factor_bps) ==
    (collateral_amount * (price \div PRICE_SCALAR) * factor_bps) \div 10000

\* C21: when get_health_ratio(user) returns, it returns
\* floor(floor(collateral_amount * price * factor_bps / (10000 * PRICE_SCALAR))
\* * HEALTH_SCALAR / borrowed_amount) of the stored position, and the largest
\* value of the integer type when the user has no position or the stored
\* debt is zero; collateral 10000 at price 1.0 with factor 7500 and debt 5000
\* gives 15000.
C21_HealthRatio ==
    /\ compute_health(10000, PRICE_SCALAR, 7500, 5000) = 15000
    /\ \A user \in Users :
          get_health_ratio_result(user) = "Ok" =>
              IF ~has_position(user) THEN get_health_ratio(user) = I128_MAX
              ELSE IF positions[user].borrowed_amount = 0
                   THEN get_health_ratio(user) = I128_MAX
              ELSE /\ oracle_price % PRICE_SCALAR = 0
                   /\ get_health_ratio(user) =
                          (WholePriceValue(positions[user].collateral_amount,
                                           oracle_price,
                                           factor_of(positions[user].collateral_token))
                              * HEALTH_SCALAR)
                          \div positions[user].borrowed_amount

\* a position whose stored debt is behind the debt with interest, at a price
\* where the inner floor drops a fraction
C21_Witness ==
    /\ has_position("u1")
    /\ positions["u1"].collateral_amount = 3
    /\ positions["u1"].borrowed_amount = 2
    /\ interest_due(positions["u1"], BorrowRateBps, ledger) > 0
    /\ oracle_price = PRICE_SCALAR
    /\ get_health_ratio("u1") = 10000

\* C22: a session started at ledger c for d ledgers has created_at_ledger c
\* and expires_at_ledger c + d; at every ledger below its expiry
\* is_session_valid is true and get_agent_pubkey returns the registered key,
\* at every ledger from its expiry on they are false and None; and in every
\* state is_session_valid(user) is true exactly when get_agent_pubkey(user)
\* returns a key.
C22_SessionExpiry ==
    [][ /\ \A user \in Users :
              /\ is_session_valid(user) <=> get_agent_pubkey(user) # None
              /\ has_session(user) =>
                    IF ledger < active_session[user].expires_at_ledger
                    THEN /\ is_session_valid(user)
                         /\ get_agent_pubkey(user) = active_session[user].agent_pubkey
                    ELSE /\ ~is_session_valid(user)
                         /\ get_agent_pubkey(user) = None
        /\ \A user \in Users :
              (last'.op = "start_session" /\ last'.who = user) =>
                  /\ active_session'[user].created_at_ledger = ledger
                  /\ active_session'[user].expires_at_ledger = ledger + last'.credit
                  /\ active_session'[user].agent_pubkey = last'.tok
                  /\ last'.credit >= MIN_SESSION_LEDGERS
                  /\ last'.credit <= MAX_SESSION_LEDGERS
      ]_vars

\* the ledger at which a session of the shortest duration expires, and one
\* step before the expiry of another user's session
C22_Witness ==
    /\ has_session("u1")
    /\ ledger = active_session["u1"].expires_at_ledger
    /\ active_session["u1"].created_at_ledger
           = ledger - MIN_SESSION_LEDGERS
    /\ has_session("u2")
    /\ ledger = active_session["u2"].expires_at_ledger - SessionLedgerStep
    /\ ~is_session_valid("u1")
    /\ is_session_valid("u2")

\* C23: a user has one stored session; a successful start_session of a user
\* who has a session overwrites it: right afterwards get_agent_pubkey returns
\* the new agent key alone, the expiry is the call's ledger plus the call's
\* duration, and no other user's session changes.
C23_SessionReplacement ==
    [][ \A user \in Users :
          (last'.op = "start_session" /\ last'.who = user) =>
              /\ get_agent_pubkey(user)' = last'.tok
              /\ is_session_valid(user)'
              /\ active_session'[user].expires_at_ledger = ledger + last'.credit
              /\ active_session'[user].created_at_ledger = ledger
              /\ active_session'[user].session_id = session_counter[user] + 1
              /\ has_session(user) =>
                    active_session'[user].session_id
                        > active_session[user].session_id
              /\ \A other \in Users \ {user} :
                    /\ has_session(other)' = has_session(other)
                    /\ has_session(other) =>
                          active_session'[other] = active_session[other]
      ]_vars

\* a start_session with key k2 has just replaced a session of the user that
\* was still valid
C23_Witness ==
    /\ last.op = "start_session"
    /\ last.who = "u1"
    /\ last.start # NoRun
    /\ last.tok = "k2"
    /\ get_agent_pubkey("u1") = "k2"
    /\ active_session["u1"].session_id = 2

\* C24: after invalidate_session(user) the user has no session:
\* is_session_valid is false and get_agent_pubkey is None, and they stay so
\* at every ledger until a start_session of that user; invalidate_session
\* changes no other user's session, and it succeeds for a user without a
\* session.
C24_SessionInvalidation ==
    [][ /\ \A user \in Users :
              ~has_session(user) =>
                  /\ ~is_session_valid(user)
                  /\ get_agent_pubkey(user) = None
        /\ \A user \in Users :
              (~has_session(user) /\ has_session(user)') =>
                  (last'.op = "start_session" /\ last'.who = user)
        /\ \A user \in Users :
              (last'.op = "invalidate_session" /\ last'.who = user) =>
                  /\ ~has_session(user)'
                  /\ ~is_session_valid(user)'
                  /\ get_agent_pubkey(user)' = None
                  /\ \A other \in Users \ {user} :
                        /\ has_session(other)' = has_session(other)
                        /\ has_session(other) =>
                              active_session'[other] = active_session[other]
      ]_vars

\* u1's valid session has just been invalidated and u2's is still valid
C24_Witness ==
    /\ last.op = "invalidate_session"
    /\ last.who = "u1"
    /\ last.start > 0
    /\ ~has_session("u1")
    /\ is_session_valid("u2")

\* C25: once a contract has a stored admin, every further initialize of it is
\* rejected with AlreadyInitialized, whatever its arguments; no step changes
\* the instance storage of an initialized contract, and the pool's initialize
\* (which sets the totals to zero) runs only on a pool without an admin.
C25_InitializeOnce ==
    [][ /\ has_admin(instance.leverage_pool) =>
              /\ \A admin \in Admins, borrow_rate_bps \in InitRates :
                    leverage_pool_initialize_result(admin, borrow_rate_bps,
                                                    MinHealthBps)
                        = "AlreadyInitialized"
              /\ instance'.leverage_pool = instance.leverage_pool
              /\ last'.op # "leverage_pool_initialize"
        /\ has_admin(instance.agent_vault) =>
              /\ \A admin \in Admins, zkauth_contract \in ZkAuthContracts :
                    agent_vault_initialize_result(admin, zkauth_contract)
                        = "AlreadyInitialized"
              /\ instance'.agent_vault = instance.agent_vault
              /\ last'.op # "agent_vault_initialize"
        /\ has_admin(instance.zk_auth) =>
              /\ \A admin \in Admins, verifying_key \in VerifyingKeys :
                    zk_auth_initialize_result(admin, verifying_key)
                        = "AlreadyInitialized"
              /\ instance'.zk_auth = instance.zk_auth
              /\ last'.op # "zk_auth_initialize"
      ]_vars

\* the three contracts are initialized and in use: the pool holds liquidity,
\* the vault has a supported token, a user has a session
C25_Witness ==
    /\ has_admin(instance.leverage_pool)
    /\ has_admin(instance.agent_vault)
    /\ has_admin(instance.zk_auth)
    /\ instance.leverage_pool.Admin = "admin"
    /\ leverage_pool_initialize_result("other", 2 * BorrowRateBps, MinHealthBps)
           = "AlreadyInitialized"
    /\ total_liquidity > 0
    /\ supported_token["USDC"]
    /\ has_session("u1")

\* the token lists get_all_balances is asked for
TokenLists ==
    {<<>>} \cup {<<t>> : t \in VaultTokens}
           \cup {<<t1, t2>> : t1 \in VaultTokens, t2 \in VaultTokens}

\* C26: withdraw, and agent_withdraw under a valid session, of more than the
\* user's recorded balance of the token are rejected with
\* InsufficientBalance; a deposit adds to the recorded balance exactly the
\* amount D the vault received and a withdraw or agent_withdraw takes from
\* it exactly the amount W the vault sent (so a deposit followed by a
\* withdrawal leaves it D - W above its start), no other balance changes, and
\* get_balance and get_all_balances report the recorded values.
C26_VaultBalance ==
    [][ /\ \A user \in Users, token_sac \in VaultTokens :
              /\ \A amount \in VaultAmounts :
                    amount > vault_balance[<<user, token_sac>>] =>
                        /\ withdraw_result(user, token_sac, amount)
                               = "InsufficientBalance"
                        /\ agent_withdraw_result(user, token_sac, amount,
                                                 ValidSession)
                               = "InsufficientBalance"
              /\ get_balance(user, token_sac) = vault_balance[<<user, token_sac>>]
        /\ \A user \in Users, tokens \in TokenLists :
              LET balances == get_all_balances(user, tokens)
              IN  /\ DOMAIN balances = {tokens[i] : i \in 1..Len(tokens)}
                  /\ \A t \in DOMAIN balances :
                        balances[t] = vault_balance[<<user, t>>]
        /\ \A user \in Users, token_sac \in VaultTokens :
              ( /\ last'.op \in {"deposit", "withdraw", "agent_withdraw"}
                /\ last'.who = user
                /\ last'.tok = token_sac ) =>
                  LET received == vault_custody'[token_sac] - vault_custody[token_sac]
                  IN  /\ vault_balance'[<<user, token_sac>>]
                             = vault_balance[<<user, token_sac>>] + received
                      /\ last'.op = "deposit" => received > 0
                      /\ last'.op # "deposit" =>
                            /\ received < 0
                            /\ 0 - received <= vault_balance[<<user, token_sac>>]
                      /\ \A k \in DOMAIN vault_balance \ {<<user, token_sac>>} :
                            vault_balance'[k] = vault_balance[k]
                      /\ \A t \in VaultTokens \ {token_sac} :
                            vault_custody'[t] = vault_custody[t]
      ]_vars

\* u1 has just withdrawn 1 USDC of a deposit of 2
C26_Witness ==
    /\ last.op = "withdraw"
    /\ last.who = "u1"
    /\ last.tok = "USDC"
    /\ vault_balance[<<"u1", "USDC">>] = 1
    /\ vault_custody["USDC"] = 1
    /\ withdraw_result("u1", "USDC", 2) = "InsufficientBalance"
    /\ get_all_balances("u1", <<"USDC", "EURC">>)["USDC"] = 1

\* C27: a deposit of a token that is not on the whitelist (never added, or
\* removed) is rejected with UnsupportedToken; a user holding a balance of a
\* token that is off the whitelist can withdraw any amount up to that balance.
C27_Whitelist ==
    \A user \in Users, token_sac \in VaultTokens, amount \in VaultAmounts :
        ~supported_token[token_sac] =>
            /\ deposit_result(user, token_sac, amount) = "UnsupportedToken"
            /\ amount <= vault_balance[<<user, token_sac>>] =>
                  withdraw_result(user, token_sac, amount) = "Ok"


\* C28: after an accrue_interest(user) call on a stored position the
\* position's last_interest_ledger is the current ledger, also when the
\* interest rounds down to zero; for a user without a position the call
\* changes nothing.
C28_AccrualAdvancesTick ==
    [][ \A user \in Users :
          (last'.op = "accrue_interest" /\ last'.who = user) =>
              IF has_position(user)
              THEN positions'[user].last_interest_ledger = ledger
              ELSE /\ positions' = positions
                   /\ total_borrowed' = total_borrowed
      ]_vars

\* floor(borrowed_amount * rate * elapsed / (10000 * INTEREST_PERIOD)) of the
\* stored position at the current ledger
FloorInterest(user) ==
    (positions[user].borrowed_amount * BorrowRateBps
        * (ledger - positions[user].last_interest_ledger))
    \div (10000 * INTEREST_PERIOD)

\* the health of user's position on its debt with the interest up to the
\* current ledger, at a price that is a whole number of PRICE_SCALAR units
HealthWithInterest(user) ==
    IF positions[user].borrowed_amount + FloorInterest(user) = 0 THEN I128_MAX
    ELSE (WholePriceValue(positions[user].collateral_amount, oracle_price,
                          factor_of(positions[user].collateral_token))
             * HEALTH_SCALAR)
         \div (positions[user].borrowed_amount + FloorInterest(user))

C30_LiquidationSettlement ==
    [][ \A user \in Users :
          (last'.op = "liquidate" /\ last'.who = user) =>
              LET position == accrued_position(user)
              IN  /\ pool_custody' = pool_custody + position.borrowed_amount
                  /\ total_borrowed' = total_borrowed - position.borrowed_amount
                  /\ coll_custody' =
                         [coll_custody EXCEPT ![position.collateral_token] =
                             @ - positions[user].collateral_amount]
                  /\ UNCHANGED <<total_liquidity, total_shares, lp_shares>>
                  /\ \A other \in Users \ {user} :
                         /\ has_position(other)' = has_position(other)
                         /\ has_position(other) => positions'[other] = positions[other]
                         /\ \A token \in Tokens :
                                collateral_balance'[<<other, token>>]
                                    = collateral_balance[<<other, token>>]
      ]_vars

\* u1 was liquidated while u2 holds a position and its collateral, and the
\* liquidated collateral carried a bonus of one unit.
C30_Witness ==
    /\ last.op = "liquidate" /\ last.who = "u1"
    /\ ~has_position("u1") /\ has_position("u2")
    /\ collateral_balance[<<"u2", "XLM">>] = BonusCollateral
    /\ coll_custody["XLM"] = BonusCollateral
    /\ liquidation_bonus(positions["u2"]) = 1

\* C31: when close_position or liquidate settles a position whose debt carries
\* positive interest for the ledgers since last_interest_ledger, and no profit
\* is paid out, the interest is added to total_liquidity, so the value of a
\* share (total_liquidity over the unchanged total_shares) goes up.
C31_InterestRaisesSharePrice ==
    [][ \A user \in Users :
          ( /\ last'.op \in {"close_position", "liquidate"}
            /\ last'.who = user
            /\ FloorInterest(user) > 0
            /\ last'.op = "close_position" =>
                   close_payout(accrued_position(user)) = 0 )
          => /\ total_shares' = total_shares
             /\ total_liquidity' > total_liquidity
      ]_vars

\* C32: in every reachable state total_shares is the sum of the LPs' share
\* balances and no balance is negative; an LP's balance changes only in that
\* LP's own lp_deposit or lp_withdraw, and no other operation changes a
\* balance or total_shares.
C32_ShareLedger ==
    [][ /\ total_shares = SumOver(LPs, lp_shares)
        /\ total_shares' = SumOver(LPs, lp_shares')
        /\ \A lp \in LPs :
              /\ lp_shares'[lp] >= 0
              /\ lp_shares'[lp] # lp_shares[lp] =>
                    /\ last'.op \in {"lp_deposit", "lp_withdraw"}
                    /\ last'.who = lp
        /\ last'.op \notin {"lp_deposit", "lp_withdraw"} =>
              UNCHANGED <<lp_shares, total_shares>>
      ]_vars

\* lp2 has just withdrawn while lp1 holds shares and the trader's position is
\* open
C32_Witness ==
    /\ last.op = "lp_withdraw" /\ last.who = "lp2"
    /\ lp_shares["lp1"] > 0
    /\ has_position("u1")
    /\ total_shares = lp_shares["lp1"] + lp_shares["lp2"]

\* C33: in every reachable state total_borrowed is the sum of borrowed_amount
\* over the stored positions.
C33_DebtAggregate ==
    total_borrowed =
        SumOver(DOMAIN positions,
                [u \in DOMAIN positions |-> positions[u].borrowed_amount])

\* C34: in every reachable state the contract holds, of every collateral
\* token, at least the sum of the users' free balances in it.
C34_CollateralSolvency ==
    \A token \in Tokens : coll_custody[token] >= FreeCollateral(token)

\* C35: while a position is open its snapshotted collateral_amount is at most
\* the owner's free balance in the position's collateral token.
C35_PositionBacking ==
    \A user \in DOMAIN positions :
        positions[user].collateral_amount
            <= collateral_balance[<<user, positions[user].collateral_token>>]

\* C36: in every reachable state the pool asset the contract holds through
\* its transfers is at least total_liquidity, so neither an lp_withdraw that
\* passes the available-liquidity check nor a close_position payout fails in
\* the token transfer.
C36_PoolAssetSolvency ==
    /\ pool_custody >= total_liquidity
    /\ \A lp \in LPs : \A shares \in 1..MaxShares :
          lp_withdraw_result(lp, shares) # "TransferFailed"
    /\ \A user \in Users : \A session \in Sessions :
          close_position_result(user, session) # "TransferFailed"

\* a profit has just been paid out of the pool, which holds exactly the
\* liquidity that is left
C36_Witness ==
    /\ last.op = "close_position"
    /\ total_liquidity < total_shares
    /\ total_liquidity > 0
    /\ pool_custody = total_liquidity

\* C37: while the oracle price does not move, neither opening nor closing a
\* position lowers total_liquidity or changes total_shares, so an open/close
\* cycle at one price leaves the value of a share no lower than it was.
C37_NoLossAtSteadyPrice ==
    [][ (last'.op \in {"open_position", "close_position"}
            /\ oracle_price' = oracle_price)
        => /\ total_shares' = total_shares
           /\ total_liquidity' >= total_liquidity
      ]_vars

\* C38: a close_position that settles without a loss leaves the owner's free
\* balance in the position's collateral token as it was just before the
\* call; one that settles with a loss leaves it no higher.
C38_ClosePreservesFreeCollateral ==
    [][ \A user \in Users :
          (last'.op = "close_position" /\ last'.who = user) =>
              LET position == accrued_position(user)
                  key == <<user, position.collateral_token>>
              IN  /\ close_pnl(position) >= 0 =>
                         collateral_balance'[key] = collateral_balance[key]
                  /\ close_pnl(position) < 0 =>
                         collateral_balance'[key] <= collateral_balance[key]
      ]_vars

\* C39: in every reachable state where a position's health at the current
\* price and ledger is below MinHealthBps, the contract holds at least the
\* position's collateral_amount of its collateral token and a liquidate call
\* of a funded liquidator succeeds.
C39_LiquidationAvailable ==
    \A user \in DOMAIN positions :
        (~oracle_fails /\ HealthWithInterest(user) < MinHealthBps) =>
            /\ coll_custody[positions[user].collateral_token]
                   >= positions[user].collateral_amount
            /\ liquidate_result(user) = "Ok"

\* C40: in every reachable state and for every token, no recorded vault
\* balance is negative and the users' balances sum to at most what the vault
\* holds of the token through deposit, withdraw and agent_withdraw.
C40_VaultSolvency ==
    \A token_sac \in VaultTokens :
        /\ \A user \in Users : vault_balance[<<user, token_sac>>] >= 0
        /\ SumOver(Users, [u \in Users |-> vault_balance[<<u, token_sac>>]])
              <= vault_custody[token_sac]

====
